---- MODULE Spec2Model ----
(***************************************************************************)
(* A model of agent-conduit's server core: PushChannel, PermissionGate,    *)
(* StreamTranslator, SessionManager/Session and the Hono router; and of    *)
(* its client core: the state reducer, convertMessages and AgentClient.    *)
(*                                                                         *)
(* JavaScript runs every synchronous block to completion, so each action   *)
(* below is one synchronous block: an API call, a handler body, or the     *)
(* continuation of an await.                                               *)
(***************************************************************************)
EXTENDS Naturals, Sequences, FiniteSets, TLC

VARIABLES
    op,            \* the last operation performed and its outcome (trace variable)
    \* ---- a PushChannel on its own (push-channel.ts)
    chan,          \* the channel: queue, waiting, closed, and its consumers' promises
    pushedOpen,    \* history: the values of the push calls made before the first close call
    closeCalled,   \* history: close() has been called
    recv,          \* history: the values the consumer's next() calls have yielded to it
    eos,           \* history: the consumer has been handed end-of-stream
    \* ---- PermissionGate (permission-gate.ts)
    nextId,        \* the module-level id counter
    pendingPermissions, \* per session: id -> original input
    pendingQuestions,   \* per session: the set of pending question ids
    fut,           \* per id: the deferred's promise (unissued, pending or its value)
    \* ---- SessionManager / Session (session.ts)
    sessions,      \* the manager's map: the ids of the sessions it holds
    inp,           \* per session: the input channel
    out,           \* per session: the output channel
    aborted,       \* per session: the aborted flag
    tr,            \* per session: the translator's state
    drv,           \* per session: where drive() is
    eng,           \* per session: what the engine is doing
    turns,         \* per session: the user messages handed to the input channel, those
                   \* handed over before it was closed, the ones the engine's prompt
                   \* iterator has yielded, and whether that iterator has ended
    \* ---- router (router.ts)
    sse,           \* per session and subscriber: the SSE response
    \* ---- history of a session's output channel
    outLog,        \* per session: every event handed to output.push, in call order,
                   \* those handed over before output.close was first called, and
                   \* whether it has been called
    \* ---- client core (state.ts, convert.ts, client.ts)
    agentState,    \* the AgentState the reducer folds events into (AgentClient.agentState)
    client,        \* the other fields of an AgentClient, the EventSources it has
                   \* opened and the requests it has in flight
    hist           \* history: the calls made so far on the translator, the reducer
                   \* or the client, in order

chanVars == <<chan, pushedOpen, closeCalled, recv, eos>>
gateVars == <<nextId, pendingPermissions, pendingQuestions, fut>>
sessVars == <<sessions, inp, out, aborted, tr, drv, eng, turns>>
histVars == <<outLog>>
clientVars == <<agentState, client, hist>>
vars == <<op, chanVars, gateVars, sessVars, sse, histVars, clientVars>>

-----------------------------------------------------------------------------
(* Bounds *)

\* push calls made on the stand-alone channel
MaxPush == 3
\* ids the gate's counter may allocate (GateSpec)
MaxIds == 2
\* ids the gate's counter may allocate (Spec)
MaxSpecIds == 1
\* messages the engine yields to the driver (Spec)
MaxEngineMsgs == 1
\* pushMessage calls on a session, after its initial prompt
MaxTurns == 1
\* requests, questions, engine messages and pushMessage calls, all together,
\* on the two sessions of IsoSpec
MaxIsoCalls == 2
\* ids issued and follow-up messages posted, all together, in MgrSpec
MaxMgrCalls == 1
\* engine messages yielded in BatchSpec
MaxBatchMsgs == 2
\* lines encoded in WireSpec
MaxLines == 2
\* translate calls made on the translator of TrSpec
MaxTranslate == 4
\* messages, text pieces, tool calls and pending entries, all together, in the
\* AgentState of RedSpec
MaxWeight == 4
\* events reduced in PendSpec
MaxEvents == 4
\* EventSources an AgentClient opens, counting its POST /sessions in flight
MaxSources == 2
\* snapshot objects getSnapshot builds
MaxRefs == 2
\* what the AgentState of a client holds (see Weight)
MaxClientWeight == 2

-----------------------------------------------------------------------------
(* Values *)

Undefined == "undefined"
NoWaiter == "none"
Consumers == {"c1", "c2"}
Values == {"a", "b"}
SessionIds == {"s1", "s2"}
\* a subscriber that has made no request
NoResponse == [st |-> "none", body |-> <<>>]
NoOp == [name |-> "init", s |-> Undefined, arg |-> Undefined, res |-> Undefined]
Op(name, s, arg, res) == [name |-> name, s |-> s, arg |-> arg, res |-> res]

-----------------------------------------------------------------------------
(* PushChannel: push-channel.ts *)

\* A consumer's outstanding next() promise: none, pending (its resolver is
\* parked in `waiting`), or settled with an IteratorResult.
NoPromise == [st |-> "idle", value |-> Undefined, done |-> FALSE]
PendingPromise == [st |-> "parked", value |-> Undefined, done |-> FALSE]
IterResult(v, d) == [st |-> "settled", value |-> v, done |-> d]

NewChannel ==
    [queue |-> <<>>, waiting |-> NoWaiter, closed |-> FALSE,
     promise |-> [c \in Consumers |-> NoPromise]]

ChPushNoClosedCheck(ch, v) ==
    IF ch.waiting # NoWaiter
    THEN [ch EXCEPT !.waiting = NoWaiter,
                    !.promise[ch.waiting] = IterResult(v, FALSE)]
    ELSE [ch EXCEPT !.queue = Append(@, v)]

ChPushAlwaysQueue(ch, v) ==
    IF ch.closed THEN ch ELSE [ch EXCEPT !.queue = Append(@, v)]

\* push(value)
ChPush(ch, v) ==
    IF ch.closed THEN ch
    ELSE IF ch.waiting # NoWaiter
         THEN [ch EXCEPT !.waiting = NoWaiter,
                         !.promise[ch.waiting] = IterResult(v, FALSE)]
         ELSE [ch EXCEPT !.queue = Append(@, v)]

ChCloseKeepWaiter(ch) == [ch EXCEPT !.closed = TRUE]

\* close()
ChClose(ch) ==
    IF ch.waiting # NoWaiter
    THEN [ch EXCEPT !.closed = TRUE, !.waiting = NoWaiter,
                    !.promise[ch.waiting] = IterResult(Undefined, TRUE)]
    ELSE [ch EXCEPT !.closed = TRUE]

ChNextNoShift(ch, c) ==
    IF Len(ch.queue) > 0
    THEN [ch EXCEPT !.promise[c] = IterResult(Head(ch.queue), FALSE)]
    ELSE IF ch.closed
         THEN [ch EXCEPT !.promise[c] = IterResult(Undefined, TRUE)]
         ELSE [ch EXCEPT !.waiting = c, !.promise[c] = PendingPromise]

\* [Symbol.asyncIterator]().next(), called by consumer c
ChNext(ch, c) ==
    IF Len(ch.queue) > 0
    THEN [ch EXCEPT !.queue = Tail(@),
                    !.promise[c] = IterResult(Head(ch.queue), FALSE)]
    ELSE IF ch.closed
         THEN [ch EXCEPT !.promise[c] = IterResult(Undefined, TRUE)]
         ELSE [ch EXCEPT !.waiting = c, !.promise[c] = PendingPromise]

\* the consumer's await of its next() promise returns: the promise is consumed
ChTaken(ch, c) == [ch EXCEPT !.promise[c] = NoPromise]

-----------------------------------------------------------------------------
(* PermissionGate: permission-gate.ts *)

Tools == {"Bash"}
Inputs == {"i1", "i2"}
Null == "null"
Nullish == {Undefined, Null}
Behaviors == {"allow", "deny"}
Answers == {"yes"}
Questions == {"q?"}
NoContext == [toolUseId |-> Undefined, reason |-> Undefined]
Contexts == {NoContext, [toolUseId |-> "tc-perm", reason |-> "dangerous"]}

GenerateIdConstant(prefix, n) == [kind |-> prefix, n |-> 1]

\* generateId(prefix): `${prefix}_${++nextId}`
GenerateId(prefix, n) == [kind |-> prefix, n |-> n + 1]

\* the ids a caller may name: the ids issued so far, still pending or not,
\* and one (n = 0) that is never issued
CallerIds == DOMAIN fut \cup {[kind |-> "perm", n |-> 0]}

\* deferred(): a promise nobody has resolved yet; `calls` counts the calls of its resolve
PendingFuture == [st |-> "pending", value |-> Undefined, calls |-> 0]
\* deferred.resolve(v): a promise keeps the first value it is resolved with
Settle(f, v) ==
    IF f.st = "pending" THEN [st |-> "resolved", value |-> v, calls |-> f.calls + 1]
    ELSE [f EXCEPT !.calls = @ + 1]

\* toolUseId and reason are members of the event only when the context
\* gives them
PermissionRequestEvent(id, toolName, input, ctx) ==
    LET Given(f) == IF ctx[f] # Undefined THEN f :> ctx[f] ELSE <<>>
    IN [type |-> "permission_request", id |-> id, toolName |-> toolName, input |-> input]
       @@ Given("toolUseId") @@ Given("reason")
PermissionResolvedEvent(id, behavior) ==
    [type |-> "permission_resolved", id |-> id, behavior |-> behavior]
\* the callers of askQuestion in this model pass an empty options array
UserQuestionEvent(id, question) ==
    [type |-> "user_question", id |-> id, question |-> question, options |-> <<>>]
UserQuestionAnsweredEvent(id, answer) ==
    [type |-> "user_question_answered", id |-> id, answer |-> answer]

RECURSIVE PushAll(_, _)
\* for (const event of events) channel.push(event)
PushAll(ch, events) ==
    IF events = <<>> THEN ch ELSE PushAll(ChPush(ch, Head(events)), Tail(events))

OutPushBroadcast(s, events) ==
    /\ out' = [x \in SessionIds |-> PushAll(out[x], events)]
    /\ outLog' = [x \in SessionIds |->
                     [outLog[x] EXCEPT !.all = @ \o events,
                                       !.open = IF outLog[x].closeCalled THEN @ ELSE @ \o events]]

OutPushFirstOnly(s, events) ==
    LET first == SubSeq(events, 1, 1) IN
    /\ out' = [out EXCEPT ![s] = PushAll(@, first)]
    /\ outLog' = [outLog EXCEPT ![s].all = @ \o first,
                                ![s].open = IF outLog[s].closeCalled THEN @ ELSE @ \o first]

\* outputChannel.push(e) for each e of events, by session s
OutPush(s, events) ==
    /\ out' = [out EXCEPT ![s] = PushAll(@, events)]
    /\ outLog' = [outLog EXCEPT ![s].all = @ \o events,
                                ![s].open = IF outLog[s].closeCalled THEN @ ELSE @ \o events]

\* outputChannel.close() by session s
OutClose(s) ==
    /\ out' = [out EXCEPT ![s] = ChClose(@)]
    /\ outLog' = [outLog EXCEPT ![s].closeCalled = TRUE]

ResolveValueIgnoresUpdate(behavior, updatedInput, input) ==
    IF behavior = "allow"
    THEN [behavior |-> "allow", updatedInput |-> input]
    ELSE [behavior |-> "deny", message |-> "User denied"]

\* the value resolve() settles the deferred with
ResolveValue(behavior, updatedInput, input) ==
    IF behavior = "allow"
    THEN [behavior |-> "allow",
          updatedInput |-> IF updatedInput \in Nullish THEN input ELSE updatedInput]
    ELSE [behavior |-> "deny", message |-> "User denied"]

Without(f, k) == [x \in DOMAIN f \ {k} |-> f[x]]

PermissionsAfterResolveKeep(pp, id) == pp
PermissionsAfterResolveClear(pp, id) == <<>>

\* this.pendingPermissions.delete(id)
PermissionsAfterResolve(pp, id) == Without(pp, id)

\* this.pendingQuestions.delete(id)
QuestionsAfterAnswer(pq, id) == pq \ {id}

ResolveEmitsNothing(id, behavior) == <<>>
ResolveEmitsTwice(id, behavior) ==
    <<PermissionResolvedEvent(id, behavior), PermissionResolvedEvent(id, behavior)>>

\* what resolve() emits
ResolveEmits(id, behavior) == <<PermissionResolvedEvent(id, behavior)>>

\* request(toolName, input, context) on the gate of session s
GateRequest(s, toolName, input, ctx) ==
    LET id == GenerateId("perm", nextId) IN
    /\ nextId' = nextId + 1
    /\ pendingPermissions' = [pendingPermissions EXCEPT ![s] = (id :> input) @@ @]
    /\ fut' = (id :> PendingFuture) @@ fut
    /\ OutPush(s, <<PermissionRequestEvent(id, toolName, input, ctx)>>)
    /\ UNCHANGED pendingQuestions

\* askQuestion(question, options) on the gate of session s
GateAskQuestion(s, question) ==
    LET id == GenerateId("question", nextId) IN
    /\ nextId' = nextId + 1
    /\ pendingQuestions' = [pendingQuestions EXCEPT ![s] = @ \cup {id}]
    /\ fut' = (id :> PendingFuture) @@ fut
    /\ OutPush(s, <<UserQuestionEvent(id, question)>>)
    /\ UNCHANGED pendingPermissions

\* resolve(id, behavior, updatedInput) finds the entry
GateResolve(s, id, behavior, updatedInput) ==
    /\ id \in DOMAIN pendingPermissions[s]
    /\ pendingPermissions' =
           [pendingPermissions EXCEPT ![s] = PermissionsAfterResolve(@, id)]
    /\ OutPush(s, ResolveEmits(id, behavior))
    /\ fut' = [fut EXCEPT ![id] =
                   Settle(@, ResolveValue(behavior, updatedInput, pendingPermissions[s][id]))]
    /\ UNCHANGED <<nextId, pendingQuestions>>

\* resolve(id, ...) throws `No pending permission with id`
GateResolveThrows(s, id) ==
    /\ id \notin DOMAIN pendingPermissions[s]
    /\ UNCHANGED <<gateVars, out, outLog>>

\* answerQuestion(id, answer) finds the entry
GateAnswerQuestion(s, id, answer) ==
    /\ id \in pendingQuestions[s]
    /\ pendingQuestions' = [pendingQuestions EXCEPT ![s] = QuestionsAfterAnswer(@, id)]
    /\ OutPush(s, <<UserQuestionAnsweredEvent(id, answer)>>)
    /\ fut' = [fut EXCEPT ![id] = Settle(@, answer)]
    /\ UNCHANGED <<nextId, pendingPermissions>>

\* answerQuestion(id, ...) throws `No pending question with id`
GateAnswerThrows(s, id) ==
    /\ id \notin pendingQuestions[s]
    /\ UNCHANGED <<gateVars, out, outLog>>

-----------------------------------------------------------------------------
(* StreamTranslator: translator.ts *)

Get(r, f) == IF f \in DOMAIN r THEN r[f] ELSE Undefined
IsString(x) == x # Undefined

NewTranslator == [toolNames |-> <<>>, hadStreamThinking |-> FALSE]

\* Map.set(k, v): a known key keeps its place, a new key goes last
MapSet(m, k, v) ==
    IF \E i \in 1..Len(m) : m[i].key = k
    THEN [i \in 1..Len(m) |-> IF m[i].key = k THEN [key |-> k, val |-> v] ELSE m[i]]
    ELSE Append(m, [key |-> k, val |-> v])

\* lastToolId()
LastToolId(t) ==
    IF Len(t.toolNames) > 0 THEN t.toolNames[Len(t.toolNames)].key ELSE Undefined

Emitted(t, events) == [st |-> t, events |-> events]

\* translateStreamEvent(event, events)
TranslateStreamEvent(t, ev) ==
    CASE ev.type = "message_start" ->
           Emitted([t EXCEPT !.hadStreamThinking = FALSE],
                   <<[type |-> "message_start", role |-> "assistant"]>>)
      [] ev.type = "content_block_start" ->
           LET block == ev.content_block IN
           IF block.type \in {"tool_use", "server_tool_use"}
           THEN Emitted([t EXCEPT !.toolNames = MapSet(@, block.id, block.name)],
                        <<[type |-> "tool_start", toolCallId |-> block.id,
                           toolName |-> block.name]>>)
           ELSE Emitted(t, <<>>)
      [] ev.type = "content_block_delta" ->
           LET delta == ev.delta IN
           IF delta.type = "text_delta" /\ IsString(Get(delta, "text"))
           THEN Emitted(t, <<[type |-> "text_delta", text |-> delta.text]>>)
           ELSE IF delta.type = "thinking_delta" /\ IsString(Get(delta, "thinking"))
           THEN Emitted([t EXCEPT !.hadStreamThinking = TRUE],
                        <<[type |-> "thinking_delta", text |-> delta.thinking]>>)
           ELSE IF delta.type = "input_json_delta" /\ IsString(Get(delta, "partial_json"))
                   /\ LastToolId(t) # Undefined
           THEN Emitted(t, <<[type |-> "tool_input_delta", toolCallId |-> LastToolId(t),
                              text |-> delta.partial_json]>>)
           ELSE Emitted(t, <<>>)
      [] OTHER -> Emitted(t, <<>>)

TranslateAssistantBlockNoDedup(t, block) ==
    CASE block.type = "thinking" ->
           IF IsString(Get(block, "thinking"))
           THEN Emitted(t, <<[type |-> "thinking_delta", text |-> block.thinking]>>)
           ELSE Emitted(t, <<>>)
      [] block.type \in {"tool_use", "server_tool_use"} ->
           Emitted([t EXCEPT !.toolNames = MapSet(@, block.id, block.name)],
                   <<[type |-> "tool_call", toolCallId |-> block.id, toolName |-> block.name,
                      input |-> IF Get(block, "input") \in Nullish
                                THEN "{}" ELSE block.input]>>)
      [] OTHER -> Emitted(t, <<>>)

\* one block of translateAssistantMessage's loop
TranslateAssistantBlock(t, block) ==
    CASE block.type = "thinking" ->
           IF ~t.hadStreamThinking /\ IsString(Get(block, "thinking"))
           THEN Emitted(t, <<[type |-> "thinking_delta", text |-> block.thinking]>>)
           ELSE Emitted(t, <<>>)
      [] block.type \in {"tool_use", "server_tool_use"} ->
           Emitted([t EXCEPT !.toolNames = MapSet(@, block.id, block.name)],
                   <<[type |-> "tool_call", toolCallId |-> block.id, toolName |-> block.name,
                      input |-> IF Get(block, "input") \in Nullish
                                THEN "{}" ELSE block.input]>>)
      [] OTHER -> Emitted(t, <<>>)

RECURSIVE TranslateAssistantMessage(_, _)
\* translateAssistantMessage(content, events)
TranslateAssistantMessage(t, content) ==
    IF content = <<>> THEN Emitted(t, <<>>)
    ELSE LET first == TranslateAssistantBlock(t, Head(content))
             rest == TranslateAssistantMessage(first.st, Tail(content))
         IN Emitted(rest.st, first.events \o rest.events)

RECURSIVE JoinText(_)
JoinText(parts) ==
    IF parts = <<>> THEN <<>> ELSE <<Head(parts).text>> \o JoinText(Tail(parts))

IsTextPart(p) == p.type = "text" /\ IsString(Get(p, "text"))

\* extractToolResultText(block); a string is a sequence of pieces here, so
\* that join("") is concatenation
ExtractToolResultText(block) ==
    LET content == Get(block, "content") IN
    IF content = Undefined THEN ""
    ELSE IF content.kind = "string" THEN content.text
    ELSE IF content.kind = "array"
    THEN LET textParts == SelectSeq(content.parts, IsTextPart) IN
         IF Len(textParts) > 0 THEN [joined |-> JoinText(textParts)]
         ELSE [json |-> content.parts]
    ELSE ""

RECURSIVE TranslateUserMessage(_)
\* translateUserMessage(content, events)
TranslateUserMessage(content) ==
    IF content = <<>> THEN <<>>
    ELSE (IF Head(content).type = "tool_result"
          THEN <<[type |-> "tool_result", toolCallId |-> Head(content).tool_use_id,
                  result |-> ExtractToolResultText(Head(content))]>>
          ELSE <<>>) \o TranslateUserMessage(Tail(content))

\* translate(message)
Translate(t, message) ==
    CASE message.type = "stream_event" ->
           IF "event" \in DOMAIN message
           THEN TranslateStreamEvent(t, message.event) ELSE Emitted(t, <<>>)
      [] message.type = "assistant" ->
           IF Get(message, "content") # Undefined
           THEN TranslateAssistantMessage(t, message.content) ELSE Emitted(t, <<>>)
      [] message.type = "user" ->
           IF Get(message, "content") # Undefined
           THEN Emitted(t, TranslateUserMessage(message.content)) ELSE Emitted(t, <<>>)
      [] message.type = "system" ->
           IF Get(message, "subtype") = "init" /\ IsString(Get(message, "session_id"))
           THEN Emitted(t, <<[type |-> "session_init", sessionId |-> message.session_id]>>)
           ELSE Emitted(t, <<>>)
      [] message.type = "result" ->
           IF Get(message, "subtype") = "success"
           THEN Emitted(t, <<[type |-> "result"]>>)
           ELSE Emitted(t, <<[type |-> "error",
                              message |-> IF Get(message, "subtype") \in Nullish
                                          THEN "unknown_error" ELSE message.subtype]>>)
      [] OTHER -> Emitted(t, <<>>)

-----------------------------------------------------------------------------
(* AgentState and AgentClient as constructed: state.ts, client.ts *)

\* initialState(); result and error are absent. A string of the state is
\* the sequence of its pieces, so that + is concatenation and "" is <<>>.
InitialState ==
    [sessionId |-> Undefined, isRunning |-> FALSE, messages |-> <<>>,
     pendingPermissions |-> <<>>, pendingQuestions |-> <<>>,
     result |-> Undefined, error |-> Undefined]

\* eventSource = null: the index of no EventSource
NoSource == 0
\* cachedSnapshot = null: the snapshot that is no object
NoSnapshot == [ref |-> 0]

\* new AgentClient(config). `sources` are the EventSource objects it has
\* constructed, `eventSource` the index of the one it holds; `refs` counts
\* the snapshot objects built, which gives each its identity; `posting` is
\* the number of its POST /sessions requests in flight and `created` the
\* number of sessions the server has created for it; `notified` is the set
\* of listeners called during the latest step and `destroyed` whether
\* destroy() has been called.
NewClient ==
    [sessionId |-> Null, eventSource |-> NoSource, subscribers |-> {},
     cachedSnapshot |-> NoSnapshot, sources |-> <<>>, refs |-> 0,
     posting |-> 0, created |-> 0, destroyed |-> FALSE, notified |-> {}]

\* a client nobody has used
FreshClient ==
    /\ agentState = InitialState
    /\ client = NewClient
    /\ hist = <<>>

-----------------------------------------------------------------------------
(* The state before any session exists, and a channel nobody has touched *)

\* no user message pushed or yielded yet
NoTurns == [pushed |-> <<>>, open |-> <<>>, yielded |-> <<>>, done |-> FALSE]

\* inputChannel.push(m), the channel being closed or not
InputPushed(t, m, closed) ==
    [t EXCEPT !.pushed = Append(@, m),
              !.open = IF closed THEN @ ELSE Append(@, m)]

NoSessions ==
    /\ nextId = 0
    /\ pendingPermissions = [s \in SessionIds |-> <<>>]
    /\ pendingQuestions = [s \in SessionIds |-> {}]
    /\ fut = <<>>
    /\ sessions = {}
    /\ inp = [s \in SessionIds |-> NewChannel]
    /\ out = [s \in SessionIds |-> NewChannel]
    /\ aborted = [s \in SessionIds |-> FALSE]
    /\ tr = [s \in SessionIds |-> Undefined]
    /\ drv = [s \in SessionIds |-> "none"]
    /\ eng = [s \in SessionIds |-> Undefined]
    /\ turns = [s \in SessionIds |-> NoTurns]
    /\ sse = [s \in SessionIds |-> [c \in Consumers |-> NoResponse]]
    /\ outLog = [s \in SessionIds |-> [all |-> <<>>, open |-> <<>>, closeCalled |-> FALSE]]

FreshChan ==
    /\ chan = NewChannel
    /\ pushedOpen = <<>>
    /\ closeCalled = FALSE
    /\ recv = <<>>
    /\ eos = FALSE

-----------------------------------------------------------------------------
(* SessionManager.create, the driver and the engine: session.ts, config.ts *)

Prompts == {"Hello"}

\* userMessage(content)
UserMessage(content) ==
    [type |-> "user", message |-> [role |-> "user", content |-> content],
     parent_tool_use_id |-> Null, session_id |-> ""]

\* the options object create() hands to config.queryFn
QueryFnOpts == [prompt |-> "inputChannel"]

\* the engine messages the model's engine may yield
EngineMsgs ==
    << [type |-> "stream_event", event |-> [type |-> "message_start"]],
       [type |-> "stream_event",
        event |-> [type |-> "content_block_delta",
                   delta |-> [type |-> "text_delta", text |-> "Hi"]]],
       [type |-> "result", subtype |-> "success"],
       [type |-> "assistant",
        content |-> <<[type |-> "thinking", thinking |-> "t1"],
                      [type |-> "tool_use", id |-> "tc_1", name |-> "Bash",
                       input |-> "i1"]>>],
       [type |-> "system", subtype |-> "init", session_id |-> "sdk-1"] >>

\* the engine as create() leaves it: started by drive()'s first next(),
\* having yielded nothing, awaiting no permission, the abort() of its
\* query instance not called
NewEngine == [st |-> "running", n |-> 0, awaits |-> Undefined, abortCalled |-> FALSE]

\* the state create(initialPrompt) builds for session s
Created(s, initialPrompt) ==
    /\ sessions = {s}
    /\ inp = [x \in SessionIds |->
                 IF x = s THEN ChPush(NewChannel, UserMessage(initialPrompt)) ELSE NewChannel]
    /\ out = [x \in SessionIds |-> NewChannel]
    /\ aborted = [x \in SessionIds |-> FALSE]
    /\ tr = [x \in SessionIds |-> IF x = s THEN NewTranslator ELSE Undefined]
    /\ drv = [x \in SessionIds |-> IF x = s THEN "running" ELSE "none"]
    /\ eng = [x \in SessionIds |-> IF x = s THEN NewEngine ELSE Undefined]
    /\ turns = [x \in SessionIds |->
                   IF x = s THEN InputPushed(NoTurns, UserMessage(initialPrompt), FALSE)
                   ELSE NoTurns]
    /\ nextId = 0
    /\ pendingPermissions = [x \in SessionIds |-> <<>>]
    /\ pendingQuestions = [x \in SessionIds |-> {}]
    /\ fut = <<>>
    /\ sse = [x \in SessionIds |-> [c \in Consumers |-> NoResponse]]
    /\ outLog = [x \in SessionIds |-> [all |-> <<>>, open |-> <<>>, closeCalled |-> FALSE]]

\* the engine is not suspended in its permission callback
EngineCanRun(s) ==
    /\ drv[s] = "running"
    /\ \/ eng[s].st = "running"
       \/ eng[s].st = "awaitPerm" /\ fut[eng[s].awaits].st = "resolved"

\* drive(): the engine yields message number i and the loop body runs
DriveMessage(s, i) ==
    /\ EngineCanRun(s)
    /\ IF aborted[s]
       THEN \* break (which ends the engine's iterator); finally { outputChannel.close() }
            /\ OutClose(s)
            /\ drv' = [drv EXCEPT ![s] = "done"]
            /\ tr' = tr
            /\ eng' = [eng EXCEPT ![s] = [@ EXCEPT !.st = "done", !.n = @ + 1,
                                                   !.awaits = Undefined]]
       ELSE LET r == Translate(tr[s], EngineMsgs[i]) IN
            /\ OutPush(s, r.events)
            /\ tr' = [tr EXCEPT ![s] = r.st]
            /\ drv' = drv
            /\ eng' = [eng EXCEPT ![s] = [@ EXCEPT !.st = "running", !.n = @ + 1,
                                                   !.awaits = Undefined]]
    /\ op' = Op("drive", s, i, Undefined)
    /\ UNCHANGED <<clientVars, chanVars, gateVars, sessions, inp, aborted, turns, sse>>

\* drive(): the engine's iterator ends; finally { outputChannel.close() }
DriveEnd(s) ==
    /\ EngineCanRun(s)
    /\ OutClose(s)
    /\ drv' = [drv EXCEPT ![s] = "done"]
    /\ eng' = [eng EXCEPT ![s].st = "done"]
    /\ op' = Op("engineEnd", s, Undefined, Undefined)
    /\ UNCHANGED <<clientVars, chanVars, gateVars, sessions, inp, aborted, tr, turns, sse>>

\* drive(): the engine's iterator throws; finally { outputChannel.close() },
\* and the exception leaves drive()
DriveThrow(s) ==
    /\ drv[s] = "running"
    /\ eng[s].st \in {"running", "awaitPerm"}
    /\ OutClose(s)
    /\ drv' = [drv EXCEPT ![s] = "failed"]
    /\ eng' = [eng EXCEPT ![s].st = "threw"]
    /\ op' = Op("engineThrow", s, Undefined, Undefined)
    /\ UNCHANGED <<clientVars, chanVars, gateVars, sessions, inp, aborted, tr, turns, sse>>

\* the engine invokes the permissionHandler of the options queryFn was given
\* (config.ts: canUseTool calls permissionHandler(toolName, input, {...})).
\* A handler that is not there makes the call a TypeError: nothing reaches
\* the gate, and the engine either carries on without an answer or fails,
\* its iterator throwing into drive() as in DriveThrow.
EngineCallsPermissionHandler(s, toolName, input, ctx) ==
    /\ drv[s] = "running" /\ eng[s].st = "running"
    /\ IF "permissionHandler" \in DOMAIN QueryFnOpts
       THEN /\ GateRequest(s, toolName, input, ctx)
            /\ eng' = [eng EXCEPT ![s].st = "awaitPerm",
                                  ![s].awaits = GenerateId("perm", nextId)]
            /\ op' = Op("permissionHandler", s, Undefined, GenerateId("perm", nextId))
            /\ drv' = drv
       ELSE /\ op' = Op("permissionHandler", s, Undefined, "TypeError")
            /\ \/ UNCHANGED <<eng, drv, out, outLog>>
               \/ /\ OutClose(s)
                  /\ drv' = [drv EXCEPT ![s] = "failed"]
                  /\ eng' = [eng EXCEPT ![s].st = "threw"]
            /\ UNCHANGED gateVars
    /\ UNCHANGED <<clientVars, chanVars, sessions, inp, aborted, tr, turns, sse>>

\* Session.pushMessage(text)
PushMessage(s, text) ==
    /\ inp' = [inp EXCEPT ![s] = ChPush(@, UserMessage(text))]
    /\ turns' = [turns EXCEPT ![s] = InputPushed(@, UserMessage(text), inp[s].closed)]

\* the engine calls next() on the prompt iterable it was given
EngineNextPrompt(s) ==
    /\ drv[s] = "running" /\ eng[s].st = "running"
    /\ ~turns[s].done
    /\ inp[s].promise["c1"].st = "idle"
    /\ inp' = [inp EXCEPT ![s] = ChNext(@, "c1")]
    /\ op' = Op("promptNext", s, Undefined, Undefined)
    /\ UNCHANGED <<clientVars, chanVars, gateVars, sessions, out, aborted, tr, drv, eng, turns, sse, outLog>>

\* the engine's await of that next() returns: a user message, or the end
\* of the prompt
EngineTakePrompt(s) ==
    /\ inp[s].promise["c1"].st = "settled"
    /\ turns' = [turns EXCEPT ![s] =
                    IF inp[s].promise["c1"].done
                    THEN [@ EXCEPT !.done = TRUE]
                    ELSE [@ EXCEPT !.yielded = Append(@, inp[s].promise["c1"].value)]]
    /\ inp' = [inp EXCEPT ![s] = ChTaken(@, "c1")]
    /\ op' = Op("promptTake", s, Undefined, Undefined)
    /\ UNCHANGED <<clientVars, chanVars, gateVars, sessions, out, aborted, tr, drv, eng, sse, outLog>>

\* Session.abort()
Abort(s) ==
    /\ s \in sessions
    /\ aborted' = [aborted EXCEPT ![s] = TRUE]
    /\ inp' = [inp EXCEPT ![s] = ChClose(@)]
    /\ OutClose(s)
    /\ op' = Op("abort", s, Undefined, Undefined)
    /\ UNCHANGED <<clientVars, chanVars, gateVars, sessions, tr, drv, eng, turns, sse>>

-----------------------------------------------------------------------------
(* ChanSpec: one PushChannel, one producer, one consumer "c1" that awaits   *)
(* each next() before it calls the next one (push-channel.test.ts)          *)

ChanInit == op = NoOp /\ FreshChan /\ FreshClient /\ NoSessions

notChan == <<gateVars, sessVars, sse, histVars, clientVars>>
C1Promise == chan.promise["c1"]
Woke == IF C1Promise.st = "parked" THEN "woke" ELSE "nobody"

\* producer: chan.push(v)
ChanPush(v) ==
    /\ Len(pushedOpen) < MaxPush
    /\ chan' = ChPush(chan, v)
    /\ pushedOpen' = IF closeCalled THEN pushedOpen ELSE Append(pushedOpen, v)
    /\ op' = Op("push", Undefined, v, Woke)
    /\ UNCHANGED <<closeCalled, recv, eos, notChan>>

\* producer: chan.close()
ChanClose ==
    /\ chan' = ChClose(chan)
    /\ closeCalled' = TRUE
    /\ op' = Op("close", Undefined, Undefined, Woke)
    /\ UNCHANGED <<pushedOpen, recv, eos, notChan>>

\* consumer: p = iterator.next()
ChanNext ==
    /\ C1Promise.st = "idle"
    /\ chan' = ChNext(chan, "c1")
    /\ op' = Op("next", Undefined, Undefined, Undefined)
    /\ UNCHANGED <<pushedOpen, closeCalled, recv, eos, notChan>>

\* consumer: `await p` returns the IteratorResult
ChanTake ==
    /\ C1Promise.st = "settled"
    /\ chan' = ChTaken(chan, "c1")
    /\ IF C1Promise.done
       THEN eos' = TRUE /\ recv' = recv
       ELSE eos' = eos /\ recv' = Append(recv, C1Promise.value)
    /\ op' = Op("take", Undefined, Undefined, Undefined)
    /\ UNCHANGED <<pushedOpen, closeCalled, notChan>>

ChanStep ==
    \/ \E v \in Values : ChanPush(v)
    \/ ChanClose
    \/ ChanNext
    \/ ChanTake

ChanSpec == ChanInit /\ [][ChanStep]_vars

\* what the consumer has been given, is being given and will be given
InFlight == IF C1Promise.st = "settled" /\ ~C1Promise.done THEN <<C1Promise.value>> ELSE <<>>
Observable == recv \o InFlight \o chan.queue

\* C1: with a single consumer, under any interleaving of push, close and
\* next(), the values the consumer has received, followed by the one being
\* handed to it and by those still queued, are exactly the values pushed
\* before the first close, in push order, each once; and when the consumer
\* is handed end-of-stream it has received all of them.
C1_ExactlyOnceInOrder ==
    /\ Observable = pushedOpen
    /\ eos => recv = pushedOpen

\* a value handed directly to the suspended consumer after an earlier one was received
C1_Witness ==
    /\ op.name = "push" /\ op.res = "woke" /\ ~chan.closed
    /\ InFlight # <<>> /\ Len(recv) >= 1 /\ recv[1] # InFlight[1]

\* C2: once close() has been called, a push or a close leaves the channel
\* as it is, no step changes the sequence the consumer will observe, and
\* end-of-stream is only handed over after everything queued before close.
C2_ClosedIsFinal ==
    /\ [][closeCalled =>
            /\ (op'.name \in {"push", "close"} => chan' = chan)
            /\ Observable' = Observable]_vars
    /\ [](C1Promise.done => chan.queue = <<>>)

\* push(v); close(); push(v') with v still queued
C2_Witness ==
    /\ closeCalled /\ op.name = "push" /\ Len(pushedOpen) = 1
    /\ chan.queue = pushedOpen /\ op.arg # pushedOpen[1]

\* C3: next() on an empty open channel suspends; a suspended consumer is
\* resumed by the very next push with that value, or by the very next
\* close with end-of-stream; next() on an empty closed channel is settled
\* with end-of-stream at once.
C3_SuspendResume ==
    [][/\ (op'.name = "next" /\ chan.queue = <<>> =>
              chan'.promise["c1"] =
                  IF chan.closed THEN IterResult(Undefined, TRUE) ELSE PendingPromise)
       /\ (C1Promise.st = "parked" /\ op'.name = "push" =>
              chan'.promise["c1"] = IterResult(op'.arg, FALSE))
       /\ (C1Promise.st = "parked" /\ op'.name = "close" =>
              chan'.promise["c1"] = IterResult(Undefined, TRUE))]_vars

\* a suspended consumer woken by close with end-of-stream, after receiving a value
C3_Witness ==
    /\ op.name = "close" /\ op.res = "woke"
    /\ C1Promise = IterResult(Undefined, TRUE) /\ Len(recv) >= 1


-----------------------------------------------------------------------------
(* Callers of the gate. Session.permissionGate is a public field, and the  *)
(* gate's tests call it directly.                                           *)

notGate == <<clientVars, chanVars, sessions, inp, aborted, tr, drv, eng, turns, sse>>

\* session.permissionGate.request(toolName, input, ctx)
RequestCall(s, toolName, input, ctx) ==
    /\ s \in sessions
    /\ GateRequest(s, toolName, input, ctx)
    /\ op' = Op("request", s, input, GenerateId("perm", nextId))
    /\ UNCHANGED notGate

\* session.permissionGate.askQuestion(question, options)
AskQuestionCall(s, question) ==
    /\ s \in sessions
    /\ GateAskQuestion(s, question)
    /\ op' = Op("askQuestion", s, question, GenerateId("question", nextId))
    /\ UNCHANGED notGate

\* session.permissionGate.resolve(id, behavior, updatedInput)
ResolveCall(s, id, behavior, updatedInput) ==
    /\ s \in sessions
    /\ \/ /\ GateResolve(s, id, behavior, updatedInput)
          /\ op' = Op("resolve", s,
                      [id |-> id, behavior |-> behavior, updatedInput |-> updatedInput], "ok")
       \/ /\ GateResolveThrows(s, id)
          /\ op' = Op("resolve", s, [id |-> id], "no pending")
    /\ UNCHANGED notGate

\* session.permissionGate.answerQuestion(id, answer)
AnswerQuestionCall(s, id, answer) ==
    /\ s \in sessions
    /\ \/ /\ GateAnswerQuestion(s, id, answer)
          /\ op' = Op("answerQuestion", s, [id |-> id, answer |-> answer], "ok")
       \/ /\ GateAnswerThrows(s, id)
          /\ op' = Op("answerQuestion", s, [id |-> id], "no pending")
    /\ UNCHANGED notGate

-----------------------------------------------------------------------------
(* The wire format: protocol.ts. A string on the wire is the sequence of  *)
(* its pieces: a literal [lit |-> ...], or a member of a JSON object,      *)
(* [key |-> k, value |-> v], whose value stands for its JSON text: the     *)
(* values of the events are JSON values, which JSON.stringify and          *)
(* JSON.parse carry unchanged, and a line break inside a value is escaped, *)
(* so it is never a piece of its own.                                      *)

\* encodeEvent(event): `data: ${JSON.stringify(event)}\n\n`. JSON.stringify
\* writes the members of the object in order and leaves out a member whose
\* value is undefined.
EncodeEvent(e) ==
    LET names == <<"type", "sessionId", "result", "message", "role", "parentToolUseId",
                   "text", "toolCallId", "toolName", "input", "isError", "id",
                   "toolUseId", "reason", "behavior", "question", "options", "answer">>
        \* an id the gate generated, an input and a list of options are
        \* objects, never undefined
        written == SelectSeq(names, LAMBDA k :
                       /\ k \in DOMAIN e
                       /\ k \in {"id", "input", "options"} \/ e[k] # Undefined)
    IN <<[lit |-> "data: "], [lit |-> "{"]>>
       \o [i \in 1..Len(written) |-> [key |-> written[i], value |-> e[written[i]]]]
       \o <<[lit |-> "}"], [lit |-> "\n"], [lit |-> "\n"]>>

\* encodeDone(): `data: [DONE]\n\n`
EncodeDone == <<[lit |-> "data: "], [lit |-> "[DONE]"], [lit |-> "\n"], [lit |-> "\n"]>>

RECURSIVE TrimEnd(_)
\* line.trimEnd(): the line without the white space it ends with
TrimEnd(line) ==
    IF line # <<>> /\ line[Len(line)] \in {[lit |-> "\n"], [lit |-> " "]}
    THEN TrimEnd(SubSeq(line, 1, Len(line) - 1))
    ELSE line

DecodeEventKeepsPrefix(line) ==
    IF line = <<>> \/ line[1] # [lit |-> "data: "] THEN [kind |-> "threw"]
    ELSE IF line = <<[lit |-> "[DONE]"]>> THEN [kind |-> "null"]
    ELSE [kind |-> "threw"]

\* decodeEvent(line): it throws, returns null, or returns the event
\* JSON.parse reads. JSON.parse reads an object from `{`, members and `}`,
\* white space around them allowed, and throws on any other text.
DecodeEvent(line) ==
    LET payload == Tail(line)
        text == TrimEnd(payload)
        inner == SubSeq(text, 2, Len(text) - 1)
        isObject == /\ Len(text) >= 2
                    /\ text[1] = [lit |-> "{"] /\ text[Len(text)] = [lit |-> "}"]
                    /\ \A i \in 1..Len(inner) : "key" \in DOMAIN inner[i]
        \* a name written twice keeps the value written last
        Last(k) == CHOOSE i \in 1..Len(inner) :
                      /\ inner[i].key = k
                      /\ \A j \in (i + 1)..Len(inner) : inner[j].key # k
    IN IF line = <<>> \/ line[1] # [lit |-> "data: "] THEN [kind |-> "threw"]
       ELSE IF payload = <<[lit |-> "[DONE]"]>> THEN [kind |-> "null"]
       ELSE IF ~isObject THEN [kind |-> "threw"]
       ELSE [kind |-> "event",
             event |-> [k \in {inner[i].key : i \in 1..Len(inner)} |-> inner[Last(k)].value]]

-----------------------------------------------------------------------------
(* The router: router.ts *)


\* the bodies POST /sessions/:id/respond is called with
RespondBodies(ids) ==
    [kind : {"permission"}, id : ids, behavior : {"allow", Undefined},
     updatedInput : {Undefined, "i2"}, answer : {Undefined}]
    \cup [kind : {"question"}, id : ids, behavior : {Undefined},
          updatedInput : {Undefined}, answer : Answers \cup {Undefined}]
    \cup [kind : {"other"}, id : {GenerateId("perm", 0)}, behavior : {Undefined},
          updatedInput : {Undefined}, answer : {Undefined}]

CoalesceToAllow(a, b) == IF a \in Nullish THEN "allow" ELSE a

\* a ?? b
Coalesce(a, b) == IF a \in Nullish THEN b ELSE a

\* POST /sessions/:id/messages on a known session
Texts == {"more"}
MessageBodies == [message : Texts \cup {Undefined}]
PostMessages(s, body) ==
    /\ s \in sessions
    /\ PushMessage(s, Coalesce(body.message, ""))
    /\ op' = Op("messages", s, body, 200)
    /\ UNCHANGED <<clientVars, chanVars, gateVars, sessions, out, aborted, tr, drv, eng, sse, outLog>>

\* POST /sessions/:id/respond on a known session
PostRespond(s, body) ==
    /\ s \in sessions
    /\ \/ /\ body.kind = "permission"
          /\ GateResolve(s, body.id, Coalesce(body.behavior, "deny"), body.updatedInput)
          /\ op' = Op("respond", s, body, 200)
       \/ /\ body.kind = "permission"
          /\ GateResolveThrows(s, body.id)
          /\ op' = Op("respond", s, [kind |-> body.kind, id |-> body.id], 400)
       \/ /\ body.kind = "question"
          /\ GateAnswerQuestion(s, body.id, Coalesce(body.answer, ""))
          /\ op' = Op("respond", s, body, 200)
       \/ /\ body.kind = "question"
          /\ GateAnswerThrows(s, body.id)
          /\ op' = Op("respond", s, [kind |-> body.kind, id |-> body.id], 400)
       \/ /\ body.kind \notin {"permission", "question"}
          /\ op' = Op("respond", s, [kind |-> body.kind, id |-> body.id], 400)
          /\ UNCHANGED <<gateVars, out, outLog>>
    /\ UNCHANGED notGate

\* GET /sessions/:id/events on a known session: the stream's start() runs
\* to the loop's first next()
GetEvents(s, c) ==
    /\ s \in sessions
    /\ sse[s][c].st = "none"
    /\ sse' = [sse EXCEPT ![s][c] = [st |-> "open", body |-> <<>>]]
    /\ out' = [out EXCEPT ![s] = ChNext(@, c)]
    /\ op' = Op("getEvents", s, c, 200)
    /\ UNCHANGED <<clientVars, chanVars, gateVars, sessions, inp, aborted, tr, drv, eng, turns, outLog>>

SseStepDropsEvent(s, c) ==
    /\ sse[s][c].st = "open"
    /\ out[s].promise[c].st = "settled"
    /\ IF out[s].promise[c].done
       THEN /\ sse' = [sse EXCEPT ![s][c] =
                           [st |-> "closed", body |-> Append(@.body, EncodeDone)]]
            /\ out' = [out EXCEPT ![s] = ChTaken(@, c)]
       ELSE /\ sse' = sse
            /\ out' = [out EXCEPT ![s] = ChNext(ChTaken(@, c), c)]
    /\ op' = Op("sse", s, c, Undefined)
    /\ UNCHANGED <<clientVars, chanVars, gateVars, sessions, inp, aborted, tr, drv, eng, turns, outLog>>

\* the loop of start(): the awaited next() is settled. An event is written
\* and next() is called again; end-of-stream runs the finally block.
SseStep(s, c) ==
    /\ sse[s][c].st = "open"
    /\ out[s].promise[c].st = "settled"
    /\ IF out[s].promise[c].done
       THEN /\ sse' = [sse EXCEPT ![s][c] =
                           [st |-> "closed", body |-> Append(@.body, EncodeDone)]]
            /\ out' = [out EXCEPT ![s] = ChTaken(@, c)]
       ELSE /\ sse' = [sse EXCEPT ![s][c].body =
                           Append(@, EncodeEvent(out[s].promise[c].value))]
            /\ out' = [out EXCEPT ![s] = ChNext(ChTaken(@, c), c)]
    /\ op' = Op("sse", s, c, Undefined)
    /\ UNCHANGED <<clientVars, chanVars, gateVars, sessions, inp, aborted, tr, drv, eng, turns, outLog>>

-----------------------------------------------------------------------------
(* Spec: one session, created by POST /sessions, its engine, its gate,     *)
(* one SSE subscriber and the callers of /respond                           *)

Init == op = NoOp /\ FreshChan /\ FreshClient /\ \E p \in Prompts : Created("s1", p)

\* The requests and the bodies of /respond this specification draws. A
\* /respond naming an id that is not pending changes nothing (GateSpec has
\* those calls); here the callers name pending ids.
SpecMsgs == {i \in 1..Len(EngineMsgs) : EngineMsgs[i].type = "result" \/ (EngineMsgs[i].type = "stream_event" /\ EngineMsgs[i].event.type # "message_start")}
SpecContexts == {[toolUseId |-> "tc-perm", reason |-> "dangerous"]}
SpecBodies(s) ==
    {b \in RespondBodies(DOMAIN fut) :
        /\ b.updatedInput = Undefined
        /\ b.kind = "permission" => b.behavior # Undefined /\ b.id \in DOMAIN pendingPermissions[s]
        /\ b.kind = "question" => b.answer # Undefined /\ b.id \in pendingQuestions[s]
        /\ b.kind \in {"permission", "question"}}

Next ==
    \/ \E i \in SpecMsgs : eng["s1"].n < MaxEngineMsgs /\ DriveMessage("s1", i)
    \/ DriveEnd("s1")
    \/ DriveThrow("s1")
    \/ \E tool \in Tools, ctx \in SpecContexts :
           EngineCallsPermissionHandler("s1", tool, "i1", ctx)
    \/ Abort("s1")
    \/ \E tool \in Tools, ctx \in SpecContexts :
           nextId < MaxSpecIds /\ RequestCall("s1", tool, "i1", ctx)
    \/ \E q \in Questions : nextId < MaxSpecIds /\ AskQuestionCall("s1", q)
    \/ \E body \in SpecBodies("s1") : PostRespond("s1", body)
    \/ GetEvents("s1", "c1")
    \/ SseStep("s1", "c1")

Spec == Init /\ [][Next]_vars

-----------------------------------------------------------------------------
(* GateSpec: the gate of that session, driven by its callers alone         *)

GateNext ==
    \/ \E tool \in Tools, ctx \in SpecContexts :
           nextId < MaxIds /\ RequestCall("s1", tool, "i1", ctx)
    \/ \E q \in Questions : nextId < MaxIds /\ AskQuestionCall("s1", q)
    \/ \E id \in CallerIds, b \in Behaviors, u \in {Undefined, "i2"} :
           ResolveCall("s1", id, b, u)
    \/ \E id \in CallerIds, a \in Answers : AnswerQuestionCall("s1", id, a)
    \/ \E body \in RespondBodies(CallerIds) : PostRespond("s1", body)

GateSpec == Init /\ [][GateNext]_vars

-----------------------------------------------------------------------------
(* SessionManager and the router's lookups: session.ts, router.ts *)

\* the session ids create() has allocated so far
Allocated == {s \in SessionIds : drv[s] # "none"}

\* SessionManager.create(initialPrompt), as POST /sessions calls it.
\* s is the id crypto.randomUUID() returns: one it has not returned before.
CreateSession(s, initialPrompt) ==
    /\ s \notin Allocated
    /\ sessions' = sessions \cup {s}
    /\ inp' = [inp EXCEPT ![s] = ChPush(NewChannel, UserMessage(initialPrompt))]
    /\ out' = [out EXCEPT ![s] = NewChannel]
    /\ aborted' = [aborted EXCEPT ![s] = FALSE]
    /\ tr' = [tr EXCEPT ![s] = NewTranslator]
    /\ drv' = [drv EXCEPT ![s] = "running"]
    /\ eng' = [eng EXCEPT ![s] = NewEngine]
    /\ turns' = [turns EXCEPT ![s] = InputPushed(NoTurns, UserMessage(initialPrompt), FALSE)]
    /\ op' = Op("create", s, initialPrompt, s)
    /\ UNCHANGED <<clientVars, chanVars, gateVars, sse, outLog>>

\* SessionManager.get(id): the session of that id, or undefined
GetSession(id) ==
    /\ op' = Op("get", id, Undefined, IF id \in sessions THEN id ELSE Undefined)
    /\ UNCHANGED <<clientVars, chanVars, gateVars, sessVars, sse, outLog>>

SessionsAfterDeleteKeep(ss, id) == ss

\* this.sessions.delete(id)
SessionsAfterDelete(ss, id) == ss \ {id}

\* SessionManager.delete(id): abort() the session and drop it from the map;
\* nothing for an id the map does not hold
DeleteSession(id) ==
    /\ IF id \in sessions
       THEN /\ aborted' = [aborted EXCEPT ![id] = TRUE]
            /\ inp' = [inp EXCEPT ![id] = ChClose(@)]
            /\ OutClose(id)
            /\ sessions' = SessionsAfterDelete(sessions, id)
       ELSE UNCHANGED <<aborted, inp, out, outLog, sessions>>
    /\ op' = Op("delete", id, Undefined, Undefined)
    /\ UNCHANGED <<clientVars, chanVars, gateVars, tr, drv, eng, turns, sse>>

Endpoints == {"getEvents", "messages", "respond"}

NotFoundAnswersOk(endpoint, s) ==
    /\ s \notin sessions
    /\ op' = Op(endpoint, s, Undefined, 200)
    /\ UNCHANGED <<clientVars, chanVars, gateVars, sessVars, sse, outLog>>

\* GET /sessions/:id/events, POST /sessions/:id/messages and
\* POST /sessions/:id/respond with an id sessions.get() does not find
NotFound(endpoint, s) ==
    /\ s \notin sessions
    /\ op' = Op(endpoint, s, Undefined, 404)
    /\ UNCHANGED <<clientVars, chanVars, gateVars, sessVars, sse, outLog>>

-----------------------------------------------------------------------------
(* MgrSpec: a manager that starts empty, up to two sessions, their gates,  *)
(* drivers and engines, and the router's endpoints                          *)

\* the bodies of /respond this specification draws: they name any id issued
\* so far, by either session's gate, or one never issued
MgrBodies == {b \in RespondBodies(CallerIds) : b.updatedInput = Undefined}

MgrInit == op = NoOp /\ FreshChan /\ FreshClient /\ NoSessions

\* the calls made so far that add to the state: ids issued and follow-up
\* messages posted
MgrCalls ==
    LET followUps(s) == IF turns[s].pushed = <<>> THEN 0 ELSE Len(turns[s].pushed) - 1
    IN nextId + followUps("s1") + followUps("s2")

MgrNext ==
    \/ \E s \in SessionIds, p \in Prompts : CreateSession(s, p)
    \/ \E s \in SessionIds : GetSession(s)
    \/ \E s \in SessionIds : DeleteSession(s)
    \/ \E e \in Endpoints, s \in SessionIds : NotFound(e, s)
    \/ \E s \in SessionIds, body \in MessageBodies :
           MgrCalls < MaxMgrCalls /\ PostMessages(s, body)
    \/ \E s \in SessionIds : GetEvents(s, "c1")
    \/ \E s \in SessionIds, tool \in Tools, ctx \in SpecContexts :
           MgrCalls < MaxMgrCalls /\ RequestCall(s, tool, "i1", ctx)
    \/ \E s \in SessionIds, body \in MgrBodies : PostRespond(s, body)

MgrSpec == MgrInit /\ [][MgrNext]_vars

-----------------------------------------------------------------------------
(* IsoSpec: two sessions side by side, each with its gate, driver, engine  *)
(* and callers                                                               *)

IsoInit ==
    /\ op = NoOp /\ FreshChan /\ FreshClient
    /\ \E p \in Prompts :
          /\ sessions = SessionIds
          /\ inp = [s \in SessionIds |-> ChPush(NewChannel, UserMessage(p))]
          /\ out = [s \in SessionIds |-> NewChannel]
          /\ aborted = [s \in SessionIds |-> FALSE]
          /\ tr = [s \in SessionIds |-> NewTranslator]
          /\ drv = [s \in SessionIds |-> "running"]
          /\ eng = [s \in SessionIds |-> NewEngine]
          /\ turns = [s \in SessionIds |-> InputPushed(NoTurns, UserMessage(p), FALSE)]
    /\ nextId = 0
    /\ pendingPermissions = [s \in SessionIds |-> <<>>]
    /\ pendingQuestions = [s \in SessionIds |-> {}]
    /\ fut = <<>>
    /\ sse = [s \in SessionIds |-> [c \in Consumers |-> NoResponse]]
    /\ outLog = [s \in SessionIds |-> [all |-> <<>>, open |-> <<>>, closeCalled |-> FALSE]]

\* the calls made so far that add to the state: ids issued, engine messages
\* driven and user messages pushed after the initial prompts
IsoCalls ==
    nextId + eng["s1"].n + eng["s2"].n
           + (Len(turns["s1"].pushed) - 1) + (Len(turns["s2"].pushed) - 1)

\* the bodies of /respond this specification draws: for each id issued so
\* far, by either session's gate, the body that answers it
IsoBodies ==
    {b \in RespondBodies(DOMAIN fut) :
        /\ b.updatedInput = Undefined
        /\ b.kind = "permission" => b.id.kind = "perm" /\ b.behavior = "allow"
        /\ b.kind = "question" => b.id.kind = "question" /\ b.answer # Undefined
        /\ b.kind \in {"permission", "question"}}

\* the engine messages this specification draws: the text delta
IsoMsgs == {i \in SpecMsgs : EngineMsgs[i].type = "stream_event"}

IsoNext ==
    \/ \E s \in SessionIds, tool \in Tools, ctx \in SpecContexts :
           IsoCalls < MaxIsoCalls /\ RequestCall(s, tool, "i1", ctx)
    \/ \E s \in SessionIds, q \in Questions :
           IsoCalls < MaxIsoCalls /\ AskQuestionCall(s, q)
    \/ \E s \in SessionIds, body \in IsoBodies : PostRespond(s, body)
    \/ \E s \in SessionIds, i \in IsoMsgs :
           IsoCalls < MaxIsoCalls /\ DriveMessage(s, i)
    \/ \E s \in SessionIds, body \in [message : Texts] :
           IsoCalls < MaxIsoCalls /\ PostMessages(s, body)
    \/ \E s \in SessionIds : EngineNextPrompt(s)
    \/ \E s \in SessionIds : EngineTakePrompt(s)

IsoSpec == IsoInit /\ [][IsoNext]_vars

-----------------------------------------------------------------------------
(* TurnSpec: one session, the user turns pushed to it and read by its       *)
(* engine, its output and one subscriber, and abort                         *)

TurnNext ==
    \/ \E body \in MessageBodies :
           Len(turns["s1"].pushed) <= MaxTurns /\ PostMessages("s1", body)
    \/ EngineNextPrompt("s1")
    \/ EngineTakePrompt("s1")
    \/ Abort("s1")
    \/ \E i \in SpecMsgs : eng["s1"].n < MaxEngineMsgs /\ DriveMessage("s1", i)
    \/ \E tool \in Tools, ctx \in SpecContexts :
           nextId < MaxSpecIds /\ RequestCall("s1", tool, "i1", ctx)
    \/ GetEvents("s1", "c1")
    \/ SseStep("s1", "c1")

TurnSpec == Init /\ [][TurnNext]_vars

-----------------------------------------------------------------------------
(* SseSpec: one session, its driver, and GET /sessions/:id/events called    *)
(* by up to two clients                                                     *)

SseNext ==
    \/ \E i \in SpecMsgs : eng["s1"].n < MaxEngineMsgs /\ DriveMessage("s1", i)
    \/ DriveEnd("s1")
    \/ DriveThrow("s1")
    \/ Abort("s1")
    \/ \E c \in Consumers : GetEvents("s1", c)
    \/ \E c \in Consumers : SseStep("s1", c)

SseSpec == Init /\ [][SseNext]_vars

-----------------------------------------------------------------------------
(* The gate's contract *)

IsOkCall(o) ==
    \/ o.name \in {"resolve", "answerQuestion"} /\ o.res = "ok"
    \/ o.name = "respond" /\ o.res = 200
IsFailedCall(o) ==
    \/ o.name \in {"resolve", "answerQuestion"} /\ o.res = "no pending"
    \/ o.name = "respond" /\ o.res = 400

HasEvent(log, type, id) ==
    \E i \in 1..Len(log) : log[i].type = type /\ log[i].id = id

\* the input the permission_request event of id carried
RequestedInput(s, id) ==
    LET log == outLog[s].all
        i == CHOOSE k \in 1..Len(log) : log[k].type = "permission_request" /\ log[k].id = id
    IN log[i].input

\* C4: a call resolve(P, "allow", u) that finds P settles P's future with
\* {behavior: "allow", updatedInput: u}, or with the input P was requested
\* with when no u is given; resolve(P, "deny", u) settles it with
\* {behavior: "deny", message: "User denied"} whatever u is.
C4_ResolveOutcome ==
    [][op'.name = "resolve" /\ op'.res = "ok" =>
          LET a == op'.arg IN
          /\ fut'[a.id].st = "resolved"
          /\ fut'[a.id].value =
                 IF a.behavior = "allow"
                 THEN [behavior |-> "allow",
                       updatedInput |-> IF a.updatedInput = Undefined
                                        THEN RequestedInput(op'.s, a.id)
                                        ELSE a.updatedInput]
                 ELSE [behavior |-> "deny", message |-> "User denied"]]_vars

\* resolve(P, "allow", u) with u different from the requested input
C4_Witness ==
    /\ op.name = "resolve" /\ op.res = "ok" /\ op.arg.behavior = "allow"
    /\ op.arg.updatedInput = "i2" /\ RequestedInput(op.s, op.arg.id) = "i1"
    /\ fut[op.arg.id].value = [behavior |-> "allow", updatedInput |-> "i2"]

\* C5: resolve / answerQuestion / POST respond naming an id that is not
\* pending in the matching registry fails ("no pending", 400 through the
\* router) and changes neither registry, no future and no channel; a call
\* that succeeds removes its id, so the same id fails the second time.
C5_UnknownIdFails ==
    [][/\ IsFailedCall(op') => UNCHANGED <<gateVars, out, outLog>>
       /\ (op'.name = "resolve" \/ (op'.name = "respond" /\ op'.arg.kind = "permission")) =>
              /\ IsOkCall(op') <=> op'.arg.id \in DOMAIN pendingPermissions[op'.s]
              /\ IsFailedCall(op') <=> op'.arg.id \notin DOMAIN pendingPermissions[op'.s]
              /\ op'.arg.id \notin DOMAIN pendingPermissions'[op'.s]
       /\ (op'.name = "answerQuestion" \/ (op'.name = "respond" /\ op'.arg.kind = "question")) =>
              /\ IsOkCall(op') <=> op'.arg.id \in pendingQuestions[op'.s]
              /\ IsFailedCall(op') <=> op'.arg.id \notin pendingQuestions[op'.s]
              /\ op'.arg.id \notin pendingQuestions'[op'.s]
       /\ (op'.name = "respond" /\ op'.arg.kind \notin {"permission", "question"}) =>
              IsFailedCall(op')]_vars

\* POST respond answered 400 for an id that was resolved before
C5_Witness ==
    /\ op.name = "respond" /\ op.res = 400 /\ op.arg.kind = "permission"
    /\ op.arg.id \in DOMAIN fut /\ fut[op.arg.id].st = "resolved"

\* C6: a successful resolve or answer of id A settles A's pending future,
\* removes A from its registry and leaves every other future and every
\* other pending entry as it was, whatever the order of the calls.
C6_Independent ==
    [][IsOkCall(op') =>
          LET id == op'.arg.id  s == op'.s IN
          /\ fut[id].st = "pending" /\ fut'[id].st = "resolved"
          /\ \A o \in DOMAIN fut \ {id} : fut'[o] = fut[o]
          /\ pendingPermissions'[s] = Without(pendingPermissions[s], id)
          /\ pendingQuestions'[s] = pendingQuestions[s] \ {id}]_vars

\* two requests pending at once, the second resolved first
C6_Witness ==
    /\ IsOkCall(op) /\ op.arg.id.n = 2
    /\ \E id \in DOMAIN pendingPermissions["s1"] : id.n = 1 /\ fut[id].st = "pending"

-----------------------------------------------------------------------------
(* The gate inside a session *)

\* C7: the future request or askQuestion returns starts pending, and is
\* settled only by a successful resolve / answerQuestion / POST respond
\* naming that future's own id, once; no other step (no timer, no driver
\* step, no abort, no call for another id) ever changes it.
C7_SettledOnlyByOwnCall ==
    [][\A id \in DOMAIN fut' :
          /\ id \notin DOMAIN fut => fut'[id] = PendingFuture
          /\ id \in DOMAIN fut /\ fut'[id] # fut[id] =>
                /\ fut[id].st = "pending"
                /\ fut'[id].st = "resolved" /\ fut'[id].calls = 1
                /\ IsOkCall(op') /\ op'.arg.id = id]_vars

\* a future that outlived the driver and the abort of its session, settled
\* by the POST respond naming it
C7_Witness ==
    /\ aborted["s1"] /\ drv["s1"] # "running"
    /\ op.name = "respond" /\ op.res = 200
    /\ fut[op.arg.id] # PendingFuture /\ fut[op.arg.id].calls = 1

\* C8: in the sequence of events a session pushes to its output,
\* permission_resolved{P} comes after permission_request{P}, comes at most
\* once, and has been pushed by the time P's future is settled (so before
\* anything pushed after the awaiting callback resumes); the same holds of
\* the events the output accepted, unless the output was closed.
C8_RequestBeforeResolved ==
    LET s == "s1" IN
       \A log \in {outLog[s].all, outLog[s].open} :
          /\ \A i \in 1..Len(log) :
                log[i].type = "permission_resolved" =>
                   /\ \E j \in 1..(i - 1) :
                         log[j].type = "permission_request" /\ log[j].id = log[i].id
                   /\ \A j \in 1..Len(log) :
                         log[j].type = "permission_resolved" /\ log[j].id = log[i].id => j = i
          /\ \A id \in DOMAIN fut :
                id.kind = "perm" /\ fut[id].st = "resolved" =>
                   \/ HasEvent(log, "permission_resolved", id)
                   \/ log = outLog[s].open /\ outLog[s].closeCalled

\* the output accepted permission_request{P}, permission_resolved{P} and
\* then an event the driver translated
C8_Witness ==
    LET log == outLog["s1"].open IN
    \E i, j, k \in 1..Len(log) :
       /\ i < j /\ j < k
       /\ log[i].type = "permission_request"
       /\ log[j].type = "permission_resolved" /\ log[j].id = log[i].id
       /\ log[k].type \in {"text_delta", "turn_complete"}

\* C9: when the engine invokes the permissionHandler create() handed to the
\* engine factory, the call reaches the session's gate: a permission is
\* registered as pending and a permission_request event is pushed to the
\* session's output, and the engine waits for that permission's future.
C9_HandlerReachesGate ==
    [][op'.name = "permissionHandler" =>
          /\ "permissionHandler" \in DOMAIN QueryFnOpts
          /\ \E id \in DOMAIN pendingPermissions'[op'.s] :
                /\ id \notin DOMAIN pendingPermissions[op'.s]
                /\ Len(outLog'[op'.s].all) = Len(outLog[op'.s].all) + 1
                /\ outLog'[op'.s].all[Len(outLog'[op'.s].all)].type = "permission_request"
                /\ outLog'[op'.s].all[Len(outLog'[op'.s].all)].id = id
                /\ eng'[op'.s].st = "awaitPerm" /\ eng'[op'.s].awaits = id]_vars

\* the events of the chunks a response's body holds
IsEventChunk(chunk) == DecodeEvent(TrimEnd(chunk)).kind = "event"
WrittenEvents(s, c) ==
    LET chunks == SelectSeq(sse[s][c].body, IsEventChunk)
    IN [i \in 1..Len(chunks) |-> DecodeEvent(TrimEnd(chunks[i])).event]

\* the event the subscriber's settled next() holds and the loop has not written yet
OutInFlight(s, c) ==
    LET p == out[s].promise[c]
    IN IF p.st = "settled" /\ ~p.done THEN <<p.value>> ELSE <<>>

\* C10 as stated: for a session that is not aborted, the events of the
\* finished response are every event pushed to the output channel.
C10_WrittenIsPushed ==
    ~aborted["s1"] /\ sse["s1"]["c1"].st = "closed" =>
        WrittenEvents("s1", "c1") = outLog["s1"].all

\* C10: for a session that is not aborted, with its one subscriber, the
\* events written, then the one in flight, then the ones queued are the
\* events pushed to the output channel before it was closed, in push
\* order; the finished response holds exactly these, each written once as
\* an encodeEvent chunk, followed by one [DONE].
C10_WrittenIsAccepted ==
    ~aborted["s1"] =>
        LET r == sse["s1"]["c1"] IN
        /\ WrittenEvents("s1", "c1") \o OutInFlight("s1", "c1") \o out["s1"].queue
              = outLog["s1"].open
        /\ \A i \in 1..Len(r.body) :
              r.body[i] = EncodeDone <=> r.st = "closed" /\ i = Len(r.body)
        /\ r.st = "closed" => /\ WrittenEvents("s1", "c1") = outLog["s1"].open
                              /\ Len(r.body) = Len(outLog["s1"].open) + 1

\* a finished response holding gate events and translated events
C10_Witness ==
    LET w == WrittenEvents("s1", "c1") IN
    /\ ~aborted["s1"] /\ sse["s1"]["c1"].st = "closed"
    /\ \E i, j \in 1..Len(w) :
          w[i].type = "permission_request" /\ w[j].type = "text_delta"

-----------------------------------------------------------------------------
(* The driver's exits *)

\* C11: when the engine's iterator has thrown, an error event was accepted
\* by the output channel before it was closed, and the exception did not
\* leave drive().
C11_ThrowBecomesErrorEvent ==
    eng["s1"].st = "threw" =>
        /\ drv["s1"] # "failed"
        /\ \E i \in 1..Len(outLog["s1"].open) : outLog["s1"].open[i].type = "error"

\* C12: [DONE] is written once, as the last chunk of a response that is
\* then closed, and once the session's output has been closed (the driver
\* exited, or abort) no open response is left suspended on it: each one
\* holds its end-of-stream or is still to ask for it, so each writes [DONE].
C12_EveryResponseFinishes ==
    \A c \in Consumers :
       LET r == sse["s1"][c] IN
       /\ \A i \in 1..Len(r.body) :
             r.body[i] = EncodeDone <=> r.st = "closed" /\ i = Len(r.body)
       /\ out["s1"].closed /\ r.st = "open" => out["s1"].promise[c].st # "parked"

-----------------------------------------------------------------------------
(* Abort *)

\* the user message the engine's settled next() holds and has not taken yet
PromptInFlight(s) ==
    LET p == inp[s].promise["c1"]
    IN IF p.st = "settled" /\ ~p.done THEN <<p.value>> ELSE <<>>

\* C13: after abort() both channels are closed and no reader stays
\* suspended: a reader parked at the abort is woken with end-of-stream by
\* it. What the subscriber is given is what the output accepted before the
\* abort, the queued events included, and then end-of-stream; nothing
\* pushed by the driver or the gate after the abort is accepted. The
\* engine's prompt iterator likewise yields what was queued and then ends.
C13_AbortDrains ==
    /\ [](aborted["s1"] =>
            /\ out["s1"].closed /\ inp["s1"].closed
            /\ out["s1"].promise["c1"].st # "parked"
            /\ inp["s1"].promise["c1"].st # "parked"
            /\ WrittenEvents("s1", "c1") \o OutInFlight("s1", "c1") \o out["s1"].queue
                  = outLog["s1"].open
            /\ sse["s1"]["c1"].st = "closed" => WrittenEvents("s1", "c1") = outLog["s1"].open
            /\ turns["s1"].yielded \o PromptInFlight("s1") \o inp["s1"].queue
                  = turns["s1"].open
            /\ turns["s1"].done => turns["s1"].yielded = turns["s1"].open)
    /\ [][/\ aborted["s1"] => /\ outLog'["s1"].open = outLog["s1"].open
                              /\ turns'["s1"].open = turns["s1"].open
          /\ op'.name = "abort" =>
                /\ out["s1"].promise["c1"].st = "parked" =>
                      out'["s1"].promise["c1"] = IterResult(Undefined, TRUE)
                /\ inp["s1"].promise["c1"].st = "parked" =>
                      inp'["s1"].promise["c1"] = IterResult(Undefined, TRUE)]_vars

\* an aborted session whose response is finished and whose prompt iterator
\* has ended, each having delivered what was accepted before the abort,
\* with an event and a user message pushed after the abort left out
C13_Witness ==
    /\ aborted["s1"]
    /\ sse["s1"]["c1"].st = "closed" /\ Len(WrittenEvents("s1", "c1")) >= 1
    /\ Len(outLog["s1"].all) > Len(outLog["s1"].open)
    /\ turns["s1"].done /\ Len(turns["s1"].yielded) >= 1
    /\ Len(turns["s1"].pushed) > Len(turns["s1"].open)

\* C14: Session.abort() calls the abort() of the query instance queryFn
\* returned: once a session is aborted its engine's abort handle has been
\* signalled.
C14_AbortSignalsEngine ==
    aborted["s1"] => eng["s1"].abortCalled

\* C15: once a session is aborted, none of its pending permission or
\* question futures is settled by any later step, and no later event is
\* accepted by its output.
C15_AbortedNeverResolves ==
    [][aborted["s1"] =>
          /\ \A id \in DOMAIN fut : fut[id].st = "pending" => fut'[id] = fut[id]
          /\ outLog'["s1"].open = outLog["s1"].open]_vars

-----------------------------------------------------------------------------
(* User turns *)

\* C16 as stated: the prompt iterator yields the initial prompt and then
\* one user message per pushMessage call, in call order, once each: what it
\* has yielded, holds and has queued is the sequence of those calls.
C16_YieldsEveryPush ==
    turns["s1"].yielded \o PromptInFlight("s1") \o inp["s1"].queue = turns["s1"].pushed

\* C16: the prompt iterator yields the initial prompt first and then one
\* user message per pushMessage call made before the session is aborted,
\* in call order, once each; with nothing queued its next() suspends, the
\* next pushMessage resumes it with that message, and it ends only after
\* an abort.
C16_YieldsTurnsInOrder ==
    /\ [](/\ turns["s1"].yielded \o PromptInFlight("s1") \o inp["s1"].queue
                = turns["s1"].open
          /\ Len(turns["s1"].open) >= 1
          /\ \E p \in Prompts : turns["s1"].open[1] = UserMessage(p)
          /\ ~aborted["s1"] => turns["s1"].open = turns["s1"].pushed
          /\ (turns["s1"].done \/ inp["s1"].promise["c1"].done) => aborted["s1"])
    /\ [][/\ op'.name = "promptNext" /\ inp["s1"].queue = <<>> /\ ~aborted["s1"] =>
                inp'["s1"].promise["c1"].st = "parked"
          /\ op'.name = "messages" /\ inp["s1"].promise["c1"].st = "parked" =>
                inp'["s1"].promise["c1"] =
                    IterResult(UserMessage(Coalesce(op'.arg.message, "")), FALSE)]_vars

\* the engine has been given the initial prompt and a pushed message and is
\* suspended again, the session not aborted
C16_Witness ==
    /\ ~aborted["s1"]
    /\ Len(turns["s1"].yielded) = 2 /\ turns["s1"].yielded = turns["s1"].pushed
    /\ inp["s1"].promise["c1"].st = "parked"

-----------------------------------------------------------------------------
(* Sessions side by side *)

\* the ids pending on session s's gate
PendingIds(s) == DOMAIN pendingPermissions[s] \cup pendingQuestions[s]

\* C17: a step of session A (its driver, its engine, its gate, an endpoint
\* called with A's id) changes nothing of another session B: not B's
\* output or input channel, translator, engine or registries, nor any
\* future pending on B; and POST /sessions/A/respond naming an id pending
\* on B answers 400.
C17_Isolated ==
    [][\A a \in SessionIds : \A b \in SessionIds \ {a} :
          op'.s = a =>
             /\ out'[b] = out[b] /\ outLog'[b] = outLog[b]
             /\ inp'[b] = inp[b] /\ turns'[b] = turns[b]
             /\ tr'[b] = tr[b] /\ eng'[b] = eng[b] /\ drv'[b] = drv[b]
             /\ pendingPermissions'[b] = pendingPermissions[b]
             /\ pendingQuestions'[b] = pendingQuestions[b]
             /\ \A id \in PendingIds(b) : fut'[id] = fut[id]
             /\ op'.name = "respond" /\ op'.arg.id \in PendingIds(b) => op'.res = 400]_vars

\* POST /sessions/A/respond answered 400 for an id that is pending on B,
\* while B has events of its own queued
C17_Witness ==
    /\ op.name = "respond" /\ op.res = 400
    /\ \E b \in SessionIds \ {op.s} :
          /\ op.arg.id \in PendingIds(b) /\ fut[op.arg.id].st = "pending"
          /\ Len(outLog[b].all) >= 1 /\ Len(outLog[op.s].all) = 0

-----------------------------------------------------------------------------
(* The manager and the router's lookups *)

\* C18: create registers a session under an id never allocated before;
\* get(id) returns the session of that id while the map holds it and
\* undefined otherwise, and only create and delete change the map;
\* delete(id) of a held session aborts it (flag set, both channels closed)
\* and removes it; delete of any other id changes nothing.
C18_Manager ==
    [][/\ op'.name = "create" =>
             /\ op'.res \notin Allocated /\ op'.res \notin sessions
             /\ sessions' = sessions \cup {op'.res}
       /\ op'.name = "get" =>
             op'.res = (IF op'.s \in sessions THEN op'.s ELSE Undefined)
       /\ op'.name = "delete" =>
             IF op'.s \in sessions
             THEN /\ aborted'[op'.s] /\ inp'[op'.s].closed /\ out'[op'.s].closed
                  /\ sessions' = sessions \ {op'.s}
             ELSE UNCHANGED <<gateVars, sessVars, sse, outLog>>
       /\ op'.name \notin {"create", "delete"} => sessions' = sessions]_vars

\* get(id) returning undefined for a session that was created, used and deleted
C18_Witness ==
    /\ op.name = "get" /\ op.res = Undefined
    /\ op.s \in Allocated /\ aborted[op.s] /\ out[op.s].closed
    /\ Len(turns[op.s].pushed) >= 2
    /\ sessions # {}

\* C19: GET events, POST messages and POST respond answer 404 exactly when
\* the manager does not hold the id, and then change nothing: no session
\* appears, no channel is pushed to, no gate is touched, no response opens.
C19_UnknownSession404 ==
    [][op'.name \in Endpoints =>
          /\ op'.s \notin sessions <=> op'.res = 404
          /\ op'.res = 404 => UNCHANGED <<gateVars, sessVars, sse, outLog>>]_vars

\* POST respond answered 404 for a deleted session whose gate still holds
\* a pending permission, while another session is held
C19_Witness ==
    /\ op.name = "respond" /\ op.res = 404
    /\ PendingIds(op.s) # {}
    /\ sessions # {}

\* C20: every id request or askQuestion returns, on whichever gate, is new
\* and its number is greater than the number of every id issued before, of
\* either kind, resolved or not; no two ids issued share a number.
C20_IdsIncrease ==
    /\ [][/\ DOMAIN fut \subseteq DOMAIN fut'
          /\ op'.name \in {"request", "askQuestion"} =>
                /\ op'.res \notin DOMAIN fut
                /\ DOMAIN fut' = DOMAIN fut \cup {op'.res}
                /\ \A o \in DOMAIN fut : o.n < op'.res.n]_vars
    /\ [](\A i, j \in DOMAIN fut : i.n = j.n => i = j)

\* a question asked on one session's gate numbered 2, after permission 1
\* of the other session's gate was resolved
C20_Witness ==
    /\ op.name = "askQuestion" /\ op.s = "s2" /\ op.res.n = 2
    /\ \E id \in DOMAIN fut :
          /\ id.kind = "perm" /\ id.n = 1 /\ fut[id].st = "resolved"
          /\ HasEvent(outLog["s1"].all, "permission_request", id)

-----------------------------------------------------------------------------
(* TrSpec: the translator of a session, given engine messages one by one   *)

\* the engine messages this specification draws
TrMsgs ==
    LET StreamDelta(delta) ==
            [type |-> "stream_event",
             event |-> [type |-> "content_block_delta", delta |-> delta]]
        ThinkingBlock(text) == [type |-> "thinking", thinking |-> text]
    IN { [type |-> "stream_event", event |-> [type |-> "message_start"]],
         StreamDelta([type |-> "thinking_delta", thinking |-> "stream thought"]),
         StreamDelta([type |-> "thinking_delta"]),
         StreamDelta([type |-> "text_delta", text |-> "Hi"]),
         [type |-> "assistant", content |-> <<ThinkingBlock("t1")>>],
         [type |-> "assistant",
          content |-> <<ThinkingBlock("t1"), [type |-> "text", text |-> "response"],
                        ThinkingBlock("t2")>>],
         [type |-> "assistant", content |-> <<[type |-> "thinking"]>>] }

\* translator.translate(message), as drive() calls it for session s
TranslateCall(s, message) ==
    LET r == Translate(tr[s], message) IN
    /\ tr' = [tr EXCEPT ![s] = r.st]
    /\ hist' = Append(hist, [message |-> message, events |-> r.events])
    /\ op' = Op("translate", s, message, r.events)
    /\ UNCHANGED <<agentState, client, chanVars, gateVars, sessions, inp, out, aborted,
                   drv, eng, turns, sse, outLog>>

TrNext == \E m \in TrMsgs : Len(hist) < MaxTranslate /\ TranslateCall("s1", m)

TrSpec == Init /\ [][TrNext]_vars

\* C21: translating an assistant message emits one thinking_delta per
\* thinking block of the message, in order, exactly when no thinking_delta
\* was emitted from a stream_event since the latest stream message_start;
\* otherwise it emits none.
C21_ThinkingDedup ==
    [][LET IsThinkingDelta(e) == e.type = "thinking_delta"
           HasThinkingText(b) == b.type = "thinking" /\ IsString(Get(b, "thinking"))
           IsStreamMessageStart(m) ==
               m.type = "stream_event" /\ m.event.type = "message_start"
           \* a thinking_delta came out of a stream_event in the calls so far,
           \* and no stream message_start was translated after it
           streamedThinking ==
               \E i \in 1..Len(hist) :
                   /\ hist[i].message.type = "stream_event"
                   /\ \E k \in 1..Len(hist[i].events) : IsThinkingDelta(hist[i].events[k])
                   /\ \A j \in (i + 1)..Len(hist) : ~IsStreamMessageStart(hist[j].message)
           blocks == SelectSeq(op'.arg.content, HasThinkingText)
           emitted == SelectSeq(op'.res, IsThinkingDelta)
       IN (op'.name = "translate" /\ op'.arg.type = "assistant") =>
             emitted = IF streamedThinking THEN <<>>
                       ELSE [i \in 1..Len(blocks) |->
                                [type |-> "thinking_delta", text |-> blocks[i].thinking]]]_vars

\* thinking was streamed, a message_start followed, and the assistant
\* message translated after it had its thinking emitted
C21_Witness ==
    /\ op.name = "translate" /\ op.arg.type = "assistant"
    /\ Len(op.res) = 2
    /\ \E i \in 1..Len(hist) : \E j \in (i + 1)..(Len(hist) - 1) :
          /\ hist[i].message.type = "stream_event"
          /\ \E k \in 1..Len(hist[i].events) : hist[i].events[k].type = "thinking_delta"
          /\ hist[j].message.type = "stream_event"
          /\ hist[j].message.event.type = "message_start"
          /\ \A n \in (j + 1)..(Len(hist) - 1) : hist[n].message.type = "assistant"

-----------------------------------------------------------------------------
(* The client-side reducer: state.ts *)

\* Map.has and Map.get on a Map kept as the sequence of its entries in
\* insertion order (see MapSet)
MapHas(m, k) == \E i \in 1..Len(m) : m[i].key = k
MapGet(m, k) ==
    IF MapHas(m, k) THEN m[CHOOSE i \in 1..Len(m) : m[i].key = k].val ELSE Undefined

ReduceSessionInitKeepsMessages(state, event) ==
    [state EXCEPT !.sessionId = event.sessionId, !.isRunning = TRUE]

\* case "session_init"
ReduceSessionInit(state, event) ==
    [InitialState EXCEPT !.sessionId = event.sessionId, !.isRunning = TRUE]

ReduceToolResultLatestOnly(state, event) ==
    LET n == Len(state.messages)
        i == IF n > 0 /\ MapHas(state.messages[n].toolCalls, event.toolCallId)
             THEN n ELSE 0
    IN IF i = 0 THEN state
       ELSE [state EXCEPT !.messages[i].toolCalls =
                MapSet(@, event.toolCallId,
                       [MapGet(@, event.toolCallId) EXCEPT
                           !.result = event.result,
                           !.isError = Get(event, "isError")])]

\* case "tool_result"
ReduceToolResult(state, event) ==
    LET RECURSIVE Find(_)
        \* the loop: the index it stops at, from i downwards; 0 when it runs
        \* off the front
        Find(i) ==
            IF i < 1 THEN 0
            ELSE IF MapHas(state.messages[i].toolCalls, event.toolCallId) THEN i
            ELSE Find(i - 1)
        i == Find(Len(state.messages))
    IN IF i = 0 THEN state
       ELSE [state EXCEPT !.messages[i].toolCalls =
                MapSet(@, event.toolCallId,
                       [MapGet(@, event.toolCallId) EXCEPT
                           !.result = event.result,
                           !.isError = Get(event, "isError")])]

ReducePermissionResolvedClears(state, event) ==
    [state EXCEPT !.pendingPermissions = <<>>]

\* case "permission_resolved"
ReducePermissionResolved(state, event) ==
    [state EXCEPT !.pendingPermissions = SelectSeq(@, LAMBDA e : e.key # event.id)]

ReduceResultClearsPending(state, event) ==
    [state EXCEPT !.isRunning = FALSE, !.result = Get(event, "result"),
                  !.pendingPermissions = <<>>]

\* case "result"
ReduceResult(state, event) ==
    [state EXCEPT !.isRunning = FALSE, !.result = Get(event, "result")]

\* reduceEvent(state, event): the state it returns, or the exception that
\* latestMessage(state) throws
ReduceEvent(state, event) ==
    LET n == Len(state.messages)
        msg == state.messages[n]
        \* { ...state, messages: [...state.messages.slice(0, -1), m] }
        WithLatest(m) == [state EXCEPT !.messages = [@ EXCEPT ![n] = m]]
        id == event.toolCallId
        tc == MapGet(msg.toolCalls, id)
        next ==
          CASE event.type = "session_init" -> ReduceSessionInit(state, event)
            [] event.type = "message_start" ->
                 [state EXCEPT !.messages =
                     Append(@, [role |-> event.role,
                                parentToolUseId |-> Get(event, "parentToolUseId"),
                                currentText |-> <<>>, currentThinking |-> <<>>,
                                toolCalls |-> <<>>])]
            [] event.type = "text_delta" ->
                 WithLatest([msg EXCEPT !.currentText = @ \o event.text])
            [] event.type = "thinking_delta" ->
                 WithLatest([msg EXCEPT !.currentThinking = @ \o event.text])
            [] event.type = "tool_start" ->
                 WithLatest([msg EXCEPT !.toolCalls =
                     MapSet(@, id, [toolCallId |-> id, toolName |-> event.toolName,
                                    inputText |-> <<>>, input |-> Undefined,
                                    result |-> Undefined, isError |-> Undefined])])
            [] event.type = "tool_input_delta" ->
                 IF ~MapHas(msg.toolCalls, id) THEN state
                 ELSE WithLatest([msg EXCEPT !.toolCalls =
                          MapSet(@, id, [tc EXCEPT !.inputText = @ \o event.text])])
            [] event.type = "tool_call" ->
                 IF ~MapHas(msg.toolCalls, id) THEN state
                 ELSE WithLatest([msg EXCEPT !.toolCalls =
                          MapSet(@, id, [tc EXCEPT !.input = event.input])])
            [] event.type = "tool_result" -> ReduceToolResult(state, event)
            [] event.type = "permission_request" ->
                 [state EXCEPT !.pendingPermissions =
                     MapSet(@, event.id, [id |-> event.id, toolName |-> event.toolName,
                                          input |-> event.input])]
            [] event.type = "permission_resolved" -> ReducePermissionResolved(state, event)
            [] event.type = "user_question" ->
                 [state EXCEPT !.pendingQuestions =
                     MapSet(@, event.id, [id |-> event.id, question |-> event.question,
                                          options |-> event.options])]
            [] event.type = "user_question_answered" ->
                 [state EXCEPT !.pendingQuestions =
                     SelectSeq(@, LAMBDA e : e.key # event.id)]
            [] event.type = "result" -> ReduceResult(state, event)
            [] event.type = "error" ->
                 [state EXCEPT !.isRunning = FALSE, !.error = event.message]
    IN IF n = 0 /\ event.type \in {"text_delta", "thinking_delta", "tool_start",
                                   "tool_input_delta", "tool_call"}
       THEN [threw |-> TRUE, state |-> Undefined]
       ELSE [threw |-> FALSE, state |-> next]

-----------------------------------------------------------------------------
(* RedSpec: reduceEvent applied to an AgentState, event after event *)

\* the events this specification draws
AgentEvents ==
    { [type |-> "session_init", sessionId |-> "s1"],
      [type |-> "message_start", role |-> "assistant"],
      [type |-> "text_delta", text |-> <<"a">>],
      [type |-> "thinking_delta", text |-> <<"t">>],
      [type |-> "tool_start", toolCallId |-> "tc_1", toolName |-> "Bash"],
      [type |-> "tool_input_delta", toolCallId |-> "tc_1", text |-> <<"{">>],
      [type |-> "tool_call", toolCallId |-> "tc_1", toolName |-> "Bash", input |-> "i1"],
      [type |-> "tool_result", toolCallId |-> "tc_1", result |-> "out"],
      [type |-> "permission_request", id |-> "perm_1", toolName |-> "Bash",
       input |-> "i1"],
      [type |-> "permission_resolved", id |-> "perm_1", behavior |-> "deny"],
      [type |-> "user_question", id |-> "q_1", question |-> "q?", options |-> <<>>],
      [type |-> "user_question_answered", id |-> "q_1", answer |-> "yes"],
      [type |-> "result", result |-> "done"],
      [type |-> "error", message |-> "boom"] }

\* an event that adds to a state (a message, a text piece, a tool call, a
\* pending entry) is drawn only while the state holds fewer than max of them
Fits(state, event, max) ==
    LET RECURSIVE Sum(_)
        Sum(ns) == IF ns = <<>> THEN 0 ELSE Head(ns) + Sum(Tail(ns))
        toolWeight(m) == Sum([i \in 1..Len(m.toolCalls) |->
                                 1 + Len(m.toolCalls[i].val.inputText)])
        msgWeight(m) == 1 + Len(m.currentText) + Len(m.currentThinking) + toolWeight(m)
        weight == Sum([i \in 1..Len(state.messages) |-> msgWeight(state.messages[i])])
                  + Len(state.pendingPermissions) + Len(state.pendingQuestions)
    IN event.type \in {"message_start", "text_delta", "thinking_delta", "tool_start",
                       "tool_input_delta", "permission_request", "user_question"}
          => weight < max

\* agentState = reduceEvent(agentState, event); an exception leaves the
\* assignment undone
Reduce(event) ==
    LET r == ReduceEvent(agentState, event) IN
    /\ agentState' = IF r.threw THEN agentState ELSE r.state
    /\ op' = Op("reduce", Undefined, [state |-> agentState, event |-> event],
                IF r.threw THEN "threw" ELSE "returned")
    /\ UNCHANGED <<client, chanVars, gateVars, sessVars, sse, outLog>>

RedNext ==
    \E e \in AgentEvents : Fits(agentState, e, MaxWeight) /\ Reduce(e) /\ hist' = hist

RedSpec == MgrInit /\ [][RedNext]_vars

\* C22: reducing result or error returns, leaves isRunning false, and keeps
\* messages, pendingPermissions, pendingQuestions and sessionId; result
\* changes only the result field besides, error only the error field.
C22_ResultErrorStopRunning ==
    [][(op'.name = "reduce" /\ op'.arg.event.type \in {"result", "error"}) =>
          /\ op'.res = "returned"
          /\ agentState'.isRunning = FALSE
          /\ \A f \in {"messages", "pendingPermissions", "pendingQuestions", "sessionId"} :
                agentState'[f] = agentState[f]
          /\ op'.arg.event.type = "result" =>
                agentState'.error = agentState.error /\ agentState'.result = "done"
          /\ op'.arg.event.type = "error" =>
                agentState'.result = agentState.result /\ agentState'.error = "boom"]_vars

\* result reduced on a running state that holds a message and a pending
\* permission
C22_Witness ==
    /\ op.name = "reduce" /\ op.arg.event.type = "result"
    /\ op.arg.state.isRunning /\ ~agentState.isRunning
    /\ Len(agentState.messages) = 1
    /\ Len(agentState.pendingPermissions) = 1
    /\ agentState.pendingPermissions[1].key = "perm_1"

\* C23: reducing session_init returns the initial state with sessionId set
\* to the event's and isRunning true, whatever the state before held.
C23_SessionInitResets ==
    [][(op'.name = "reduce" /\ op'.arg.event.type = "session_init") =>
          /\ op'.res = "returned"
          /\ agentState' = [InitialState EXCEPT !.sessionId = op'.arg.event.sessionId,
                                                !.isRunning = TRUE]]_vars

\* session_init reduced on a state that held a message, a pending question
\* and an error
C23_Witness ==
    /\ op.name = "reduce" /\ op.arg.event.type = "session_init"
    /\ op.arg.state.messages # <<>>
    /\ op.arg.state.pendingQuestions # <<>>
    /\ op.arg.state.error = "boom"
    /\ agentState.sessionId = "s1"

\* C24: reducing tool_result sets result and isError on the tool call of
\* the newest message declaring the id and changes nothing else: no other
\* message, no other field of that tool call, no other part of the state;
\* with the id declared nowhere the state is unchanged.
C24_ToolResultNewestOwner ==
    [][(op'.name = "reduce" /\ op'.arg.event.type = "tool_result") =>
          LET e == op'.arg.event
              \* the indices of the messages that declare the id
              owners == {i \in 1..Len(agentState.messages) :
                            MapHas(agentState.messages[i].toolCalls, e.toolCallId)}
          IN /\ op'.res = "returned"
             /\ owners = {} => agentState' = agentState
             /\ owners # {} =>
                   LET n == CHOOSE i \in owners : \A j \in owners : j <= i
                       before == MapGet(agentState.messages[n].toolCalls, e.toolCallId)
                       after == MapGet(agentState'.messages[n].toolCalls, e.toolCallId)
                   IN /\ after = [before EXCEPT !.result = e.result,
                                                !.isError = Undefined]
                      /\ agentState' =
                            [agentState EXCEPT !.messages[n].toolCalls =
                                MapSet(@, e.toolCallId, after)]]_vars

\* the result arrived after a second message had started and went to the
\* tool call declared on the first
C24_Witness ==
    /\ op.name = "reduce" /\ op.arg.event.type = "tool_result"
    /\ Len(agentState.messages) = 2
    /\ MapHas(agentState.messages[1].toolCalls, "tc_1")
    /\ ~MapHas(agentState.messages[2].toolCalls, "tc_1")
    /\ MapGet(agentState.messages[1].toolCalls, "tc_1").result = "out"
    /\ MapGet(op.arg.state.messages[1].toolCalls, "tc_1").result = Undefined

\* C25: reducing tool_call or tool_input_delta for an id with no tool
\* record on the latest message, or with no message at all, returns the
\* state unchanged; and these two events never change a message other than
\* the latest.
C25_ToolEventsNoOpWithoutRecord ==
    [][(op'.name = "reduce" /\ op'.arg.event.type \in {"tool_call", "tool_input_delta"}) =>
          LET n == Len(agentState.messages) IN
          /\ (n = 0 \/ ~MapHas(agentState.messages[n].toolCalls,
                               op'.arg.event.toolCallId))
                => op'.res = "returned" /\ agentState' = agentState
          /\ \A i \in 1..(n - 1) : agentState'.messages[i] = agentState.messages[i]]_vars

-----------------------------------------------------------------------------
(* PendSpec: reduceEvent folding a recorded sequence of events that ask    *)
(* and answer                                                              *)

\* the events this specification draws
PendEvents ==
    { [type |-> "permission_request", id |-> "perm_1", toolName |-> "Bash",
       input |-> "i1"],
      [type |-> "permission_request", id |-> "perm_2", toolName |-> "Bash",
       input |-> "i1"],
      [type |-> "permission_resolved", id |-> "perm_1", behavior |-> "deny"],
      [type |-> "permission_resolved", id |-> "perm_2", behavior |-> "deny"],
      [type |-> "user_question", id |-> "q_1", question |-> "q?", options |-> <<>>],
      [type |-> "user_question_answered", id |-> "q_1", answer |-> "yes"],
      [type |-> "session_init", sessionId |-> "s1"],
      [type |-> "message_start", role |-> "assistant"],
      [type |-> "result", result |-> "done"],
      [type |-> "error", message |-> "boom"] }

PendNext ==
    \E e \in PendEvents :
        Len(hist) < MaxEvents /\ Reduce(e) /\ hist' = Append(hist, e)

PendSpec == MgrInit /\ [][PendNext]_vars

\* C26: after any sequence of events, the keys of pendingPermissions are
\* the ids with a permission_request and no later permission_resolved since
\* the latest session_init, and the keys of pendingQuestions likewise for
\* user_question and user_question_answered; each entry is filed under its
\* own id.
C26_PendingMapsTrackRequests ==
    LET \* the ids asked by an event of type asked and not answered by a
        \* later event of type answered, counting from the latest session_init
        Unanswered(asked, answered) ==
            {id \in {"perm_1", "perm_2", "q_1"} :
                \E i \in 1..Len(hist) :
                    /\ hist[i].type = asked /\ hist[i].id = id
                    /\ \A j \in (i + 1)..Len(hist) :
                          /\ hist[j].type # "session_init"
                          /\ ~(hist[j].type = answered /\ hist[j].id = id)}
        Keys(m) == {m[i].key : i \in 1..Len(m)}
    IN /\ Keys(agentState.pendingPermissions)
             = Unanswered("permission_request", "permission_resolved")
       /\ Keys(agentState.pendingQuestions)
             = Unanswered("user_question", "user_question_answered")
       /\ \A i \in 1..Len(agentState.pendingPermissions) :
             agentState.pendingPermissions[i].val.id = agentState.pendingPermissions[i].key

\* two permissions were requested, one of them resolved, and a result came
\* in between: the other one is still pending
C26_Witness ==
    /\ Len(agentState.pendingPermissions) = 1
    /\ agentState.pendingPermissions[1].key = "perm_2"
    /\ \E i, j, k \in 1..Len(hist) :
          /\ i < j /\ j < k
          /\ hist[i].type = "permission_request" /\ hist[i].id = "perm_1"
          /\ hist[j].type = "result"
          /\ hist[k].type = "permission_resolved" /\ hist[k].id = "perm_1"

-----------------------------------------------------------------------------
(* convertMessages: convert.ts *)

\* the parts convertMessage collects: reasoning, text, then the tool calls
MessageParts(msg) ==
    LET \* convertToolCall(tc); a field not assigned is undefined, isError is
        \* "true", "false" or undefined, and JSON.stringify(input) is [json |-> input]
        ConvertToolCall(tc) ==
            [type |-> "tool-call", toolCallId |-> tc.toolCallId, toolName |-> tc.toolName,
             args |-> IF tc.input # Undefined THEN tc.input ELSE Undefined,
             argsText |-> IF tc.input # Undefined THEN [json |-> tc.input]
                          ELSE IF tc.inputText # <<>> THEN tc.inputText
                          ELSE Undefined,
             result |-> tc.result,
             isError |-> IF tc.isError = "true" THEN "true" ELSE Undefined]
    IN (IF msg.currentThinking # <<>>
        THEN <<[type |-> "reasoning", text |-> msg.currentThinking]>> ELSE <<>>)
       \o (IF msg.currentText # <<>>
           THEN <<[type |-> "text", text |-> msg.currentText]>> ELSE <<>>)
       \o [i \in 1..Len(msg.toolCalls) |-> ConvertToolCall(msg.toolCalls[i].val)]

\* convertMessages(state): convertMessage(msg, i === lastIndex, isRunning) for
\* each message in order, those with no part skipped
ConvertMessages(state) ==
    LET lastIndex == Len(state.messages)
        ConvertMessage(msg, isLast, isRunning) ==
            [role |-> "assistant", content |-> MessageParts(msg),
             status |-> IF isLast /\ isRunning THEN "running" ELSE "complete",
             metadata |-> IF msg.parentToolUseId # Undefined
                          THEN [parentToolUseId |-> msg.parentToolUseId] ELSE Undefined]
        RECURSIVE From(_)
        From(i) ==
            IF i > lastIndex THEN <<>>
            ELSE (IF Len(MessageParts(state.messages[i])) = 0 THEN <<>>
                  ELSE <<ConvertMessage(state.messages[i], i = lastIndex, state.isRunning)>>)
                 \o From(i + 1)
    IN From(1)

\* C27: convertMessages drops the blank messages and keeps the others in
\* order; while the state is running the last message returned has status
\* running and the others complete; otherwise all are complete.
C27_LastSurvivorRuns ==
    LET conv == ConvertMessages(agentState)
        \* a message with no thinking, no text and no tool call
        IsBlank(msg) ==
            msg.currentThinking = <<>> /\ msg.currentText = <<>> /\ msg.toolCalls = <<>>
        \* the indices of the messages that are not blank, in order
        kept == SelectSeq([i \in 1..Len(agentState.messages) |-> i],
                          LAMBDA i : ~IsBlank(agentState.messages[i]))
    IN /\ Len(conv) = Len(kept)
       /\ \A k \in 1..Len(conv) :
             /\ conv[k].content = MessageParts(agentState.messages[kept[k]])
             /\ conv[k].status = IF agentState.isRunning /\ k = Len(conv)
                                 THEN "running" ELSE "complete"

-----------------------------------------------------------------------------
(* AgentClient: client.ts. Each action starts from the client with         *)
(* `notified` emptied: no listener has been called in the new step yet.    *)

NotifyKeepsCache(c) == [c EXCEPT !.notified = @ \cup c.subscribers]

\* notify()
Notify(c) ==
    [c EXCEPT !.cachedSnapshot = NoSnapshot, !.notified = @ \cup c.subscribers]

\* disconnect()
Disconnect(c) ==
    IF c.eventSource # NoSource
    THEN Notify([c EXCEPT !.sources[c.eventSource] =
                              [@ EXCEPT !.onmessage = FALSE, !.onerror = FALSE,
                                        !.closed = TRUE],
                          !.eventSource = NoSource])
    ELSE c

\* connectEventSource(); `ended` records that the source has delivered
\* [DONE] or an error
ConnectEventSource(c) ==
    Notify([c EXCEPT !.sources = Append(@, [sessionId |-> c.sessionId,
                                             onmessage |-> TRUE, onerror |-> TRUE,
                                             closed |-> FALSE, ended |-> FALSE]),
                     !.eventSource = Len(c.sources) + 1])

\* the snapshot object getSnapshot builds, its identity being ref
BuildSnapshot(c, state, ref) ==
    [ref |-> ref, state |-> state, messages |-> ConvertMessages(state),
     sessionId |-> c.sessionId, isConnected |-> c.eventSource # NoSource]

\* getSnapshot()
GetSnapshot ==
    LET c == [client EXCEPT !.notified = {}]
        snap == IF c.cachedSnapshot = NoSnapshot
                THEN BuildSnapshot(c, agentState, c.refs + 1)
                ELSE c.cachedSnapshot
    IN /\ client' = [c EXCEPT !.cachedSnapshot = snap,
                              !.refs = IF c.cachedSnapshot = NoSnapshot THEN @ + 1 ELSE @]
       /\ op' = Op("getSnapshot", Undefined, Undefined, snap)
       /\ UNCHANGED <<agentState, hist, chanVars, gateVars, sessVars, sse, outLog>>

\* subscribe(listener)
Subscribe(l) ==
    /\ client' = [client EXCEPT !.notified = {}, !.subscribers = @ \cup {l}]
    /\ op' = Op("subscribe", Undefined, l, Undefined)
    /\ UNCHANGED <<agentState, hist, chanVars, gateVars, sessVars, sse, outLog>>

\* the function subscribe(listener) returned, called
Unsubscribe(l) ==
    /\ client' = [client EXCEPT !.notified = {}, !.subscribers = @ \ {l}]
    /\ op' = Op("unsubscribe", Undefined, l, Undefined)
    /\ UNCHANGED <<agentState, hist, chanVars, gateVars, sessVars, sse, outLog>>

\* sendMessage(text) up to its first await: POST /sessions when there is no
\* session yet, POST /sessions/:id/messages otherwise
SendMessage ==
    /\ client' = [client EXCEPT !.notified = {},
                                !.posting = IF client.sessionId = Null THEN @ + 1 ELSE @]
    /\ op' = Op("sendMessage", client.sessionId, Undefined,
                IF client.sessionId = Null THEN "POST /sessions" ELSE "POST /messages")
    /\ UNCHANGED <<agentState, hist, chanVars, gateVars, sessVars, sse, outLog>>

\* sendMessage(text) after `await res.json()`: the server has created a
\* session (it hands out s1, s2, ... in order), the client takes its id,
\* resets its state and connects
SendMessageCreated ==
    /\ client.posting > 0
    /\ LET id == <<"s1", "s2", "s3", "s4">>[client.created + 1]
           c == [client EXCEPT !.notified = {}, !.posting = @ - 1, !.created = @ + 1,
                               !.sessionId = id]
       IN /\ client' = ConnectEventSource(c)
          /\ op' = Op("connect", id, Undefined, Len(client.sources) + 1)
    /\ agentState' = InitialState
    /\ UNCHANGED <<hist, chanVars, gateVars, sessVars, sse, outLog>>

\* EventSource number i delivers a message: its onmessage handler, if it
\* still has one, runs
EsMessage(i, data) ==
    LET c == [client EXCEPT !.notified = {},
                            !.sources[i].ended =
                                @ \/ (client.sources[i].onmessage /\ data.kind = "done")]
        r == ReduceEvent(agentState, data.event)
    IN
    /\ i \in 1..Len(client.sources)
    /\ IF ~client.sources[i].onmessage
       THEN /\ client' = c /\ agentState' = agentState
            /\ op' = Op("onmessage", i, data, "no handler")
       ELSE IF data.kind = "done"
       THEN /\ client' = Disconnect(c) /\ agentState' = agentState
            /\ op' = Op("onmessage", i, data, "returned")
       ELSE IF data.kind = "malformed"
       THEN \* JSON.parse throws
            /\ client' = c /\ agentState' = agentState
            /\ op' = Op("onmessage", i, data, "threw")
       ELSE IF r.threw
       THEN /\ client' = c /\ agentState' = agentState
            /\ op' = Op("onmessage", i, data, "threw")
       ELSE /\ client' = Notify(c) /\ agentState' = r.state
            /\ op' = Op("onmessage", i, data, "returned")
    /\ UNCHANGED <<hist, chanVars, gateVars, sessVars, sse, outLog>>

\* EventSource number i reports an error: its onerror handler, if it still
\* has one, runs
EsError(i) ==
    /\ i \in 1..Len(client.sources)
    /\ IF ~client.sources[i].onerror
       THEN /\ client' = [client EXCEPT !.notified = {}]
            /\ op' = Op("onerror", i, Undefined, "no handler")
       ELSE /\ client' = Disconnect([client EXCEPT !.notified = {},
                                                   !.sources[i].ended = TRUE])
            /\ op' = Op("onerror", i, Undefined, "returned")
    /\ UNCHANGED <<agentState, hist, chanVars, gateVars, sessVars, sse, outLog>>

\* destroy()
Destroy ==
    /\ client' = [Disconnect([client EXCEPT !.notified = {}])
                     EXCEPT !.subscribers = {}, !.destroyed = TRUE]
    /\ op' = Op("destroy", Undefined, Undefined, Undefined)
    /\ UNCHANGED <<agentState, hist, chanVars, gateVars, sessVars, sse, outLog>>

-----------------------------------------------------------------------------
(* CliSpec: an AgentClient, its callers, its listener and its EventSources *)

\* what an EventSource delivers in this specification: the [DONE]
\* sentinel, text that is not JSON, or the JSON text of an event
Payloads ==
    { [kind |-> "done"], [kind |-> "malformed"] }
    \cup { [kind |-> "json", event |-> e] :
              e \in { [type |-> "session_init", sessionId |-> "s1"],
                      [type |-> "message_start", role |-> "assistant"],
                      [type |-> "text_delta", text |-> <<"a">>] } }

CliNext ==
    \/ Subscribe("l1")
    \/ Unsubscribe("l1")
    \/ (client.sessionId = Null => client.posting + Len(client.sources) < MaxSources)
          /\ SendMessage
    \/ SendMessageCreated
    \/ \E i \in 1..MaxSources, data \in Payloads :
          /\ data.kind = "json" => Fits(agentState, data.event, MaxClientWeight)
          /\ EsMessage(i, data)
    \/ \E i \in 1..MaxSources : EsError(i)
    \/ Destroy

CliSpec == MgrInit /\ [][CliNext]_vars

-----------------------------------------------------------------------------
(* SnapSpec: the same client with a caller of getSnapshot *)

SnapNext ==
    \/ (client.cachedSnapshot = NoSnapshot => client.refs < MaxRefs) /\ GetSnapshot
    \/ Subscribe("l1")
    \/ (client.sessionId = Null => client.posting + Len(client.sources) < MaxSources)
          /\ SendMessage
    \/ SendMessageCreated
    \/ \E i \in 1..MaxSources, data \in Payloads \ {[kind |-> "malformed"]} :
          /\ data.kind = "json" => Fits(agentState, data.event, MaxClientWeight)
          /\ EsMessage(i, data)
    \/ \E i \in 1..MaxSources : EsError(i)
    \/ Destroy

SnapSpec == MgrInit /\ [][SnapNext]_vars

-----------------------------------------------------------------------------
(* The client's handlers and snapshots *)

\* C28: the onmessage handler never throws, whatever the payload.
C28_OnMessageNeverThrows ==
    [][op'.name = "onmessage" => op'.res # "threw"]_vars

\* C29: a cached snapshot always shows the current state, its converted
\* messages, the session id and whether an EventSource is held; getSnapshot
\* returns the cached object when there is one and otherwise a new object
\* showing the same; and every step that reduces an event, connects or
\* disconnects leaves no cached snapshot behind.
C29_SnapshotNeverStale ==
    /\ [](client.cachedSnapshot # NoSnapshot =>
             client.cachedSnapshot
                = BuildSnapshot(client, agentState, client.cachedSnapshot.ref))
    /\ [][/\ op'.name = "getSnapshot" =>
                /\ op'.res = client'.cachedSnapshot
                /\ op'.res = BuildSnapshot(client', agentState', op'.res.ref)
                /\ client.cachedSnapshot # NoSnapshot => op'.res = client.cachedSnapshot
                /\ client.cachedSnapshot = NoSnapshot => op'.res.ref > client.refs
          /\ (\/ op'.name = "connect"
              \/ client'.eventSource # client.eventSource
              \/ op'.name = "onmessage" /\ op'.arg.kind = "json" /\ op'.res = "returned")
                => client'.cachedSnapshot = NoSnapshot]_vars

\* the second snapshot object, built after the first went out of date: it
\* shows the connected session and the message streamed since
C29_Witness ==
    /\ op.name = "getSnapshot"
    /\ op.res.ref = 2
    /\ op.res.isConnected /\ op.res.sessionId = "s1"
    /\ Len(op.res.messages) = 1
    /\ client.cachedSnapshot = op.res

\* C30: on [DONE] or an error the EventSource that delivered it is closed
\* and the client holds none; a message delivered on it afterwards changes
\* nothing; and once destroy() has been called no listener is called.
C30_EndOfStreamDisconnects ==
    [][/\ (\/ op'.name = "onmessage" /\ op'.arg.kind = "done" /\ op'.res = "returned"
           \/ op'.name = "onerror" /\ op'.res = "returned") =>
             client'.sources[op'.s].closed /\ client'.eventSource = NoSource
       /\ (op'.name = "onmessage" /\ client.sources[op'.s].ended) =>
             agentState' = agentState /\ client'.notified = {}
       /\ client.destroyed => client'.notified = {}]_vars

\* C36: the client's sendMessage calls create at most one session, and
\* every EventSource the client has opened is the one it holds or is closed
\* (so at most one is open).
C36_OneSessionOneEventSource ==
    /\ client.created <= 1
    /\ \A i \in 1..Len(client.sources) :
          i = client.eventSource \/ client.sources[i].closed
    /\ Cardinality({i \in 1..Len(client.sources) : ~client.sources[i].closed}) <= 1

-----------------------------------------------------------------------------
(* WireSpec: events encoded for the wire and the lines decoded again *)

\* the events this specification encodes: every variant, with and without
\* its optional members
WireEvents ==
    { [type |-> "session_init", sessionId |-> "sess_123"],
      [type |-> "result", result |-> "Task completed"],
      [type |-> "result"],
      [type |-> "error", message |-> "Something went wrong"],
      [type |-> "message_start", role |-> "assistant"],
      [type |-> "message_start", role |-> "assistant", parentToolUseId |-> "tool_abc"],
      [type |-> "text_delta", text |-> "Hello "],
      [type |-> "thinking_delta", text |-> "Let me consider..."],
      [type |-> "tool_start", toolCallId |-> "tc_1", toolName |-> "Bash"],
      [type |-> "tool_input_delta", toolCallId |-> "tc_1", text |-> "{\"command\":"],
      [type |-> "tool_call", toolCallId |-> "tc_1", toolName |-> "Bash",
       input |-> [command |-> "ls -la"]],
      [type |-> "tool_result", toolCallId |-> "tc_1", result |-> "file1.ts\nfile2.ts\n"],
      [type |-> "tool_result", toolCallId |-> "tc_2", result |-> "error output",
       isError |-> "true"],
      [type |-> "permission_request", id |-> "perm_1", toolName |-> "Bash",
       input |-> [command |-> "rm -rf /"]],
      [type |-> "permission_request", id |-> "perm_1", toolName |-> "Bash",
       input |-> [command |-> "rm -rf /"], toolUseId |-> "tc-perm",
       reason |-> "dangerous"],
      [type |-> "permission_resolved", id |-> "perm_1", behavior |-> "deny"],
      [type |-> "permission_resolved", id |-> "perm_2", behavior |-> "allow"],
      [type |-> "user_question", id |-> "q_1", question |-> "Which approach?",
       options |-> <<[label |-> "Option A", description |-> "First approach"]>>],
      [type |-> "user_question_answered", id |-> "q_1", answer |-> "Option A"] }

\* encodeEvent(e), the line kept with the event it was made from
EncodeEventCall(e) ==
    /\ hist' = Append(hist, [done |-> FALSE, event |-> e, line |-> EncodeEvent(e)])
    /\ op' = Op("encodeEvent", Undefined, e, EncodeEvent(e))
    /\ UNCHANGED <<agentState, client, chanVars, gateVars, sessVars, sse, outLog>>

\* encodeDone()
EncodeDoneCall ==
    /\ hist' = Append(hist, [done |-> TRUE, line |-> EncodeDone])
    /\ op' = Op("encodeDone", Undefined, Undefined, EncodeDone)
    /\ UNCHANGED <<agentState, client, chanVars, gateVars, sessVars, sse, outLog>>

\* decodeEvent(line.trimEnd()) for the i-th line encoded
DecodeEventCall(i) ==
    /\ i \in 1..Len(hist)
    /\ op' = Op("decodeEvent", i, TrimEnd(hist[i].line), DecodeEvent(TrimEnd(hist[i].line)))
    /\ UNCHANGED <<hist, agentState, client, chanVars, gateVars, sessVars, sse, outLog>>

WireNext ==
    \/ \E e \in WireEvents : Len(hist) < MaxLines /\ EncodeEventCall(e)
    \/ Len(hist) < MaxLines /\ EncodeDoneCall
    \/ \E i \in 1..MaxLines : DecodeEventCall(i)

WireSpec == MgrInit /\ [][WireNext]_vars

\* C31: decodeEvent of the trimmed encodeEvent(e) returns an event equal to
\* e, for every variant, and decodeEvent of the trimmed encodeDone() returns
\* null.
C31_RoundTrip ==
    [][op'.name = "decodeEvent" =>
          LET h == hist[op'.s] IN
          IF h.done THEN op'.res = [kind |-> "null"]
          ELSE op'.res = [kind |-> "event", event |-> h.event]]_vars

\* a tool_result whose text ends with a line break came back whole, from a
\* line encoded after the end-of-stream marker
C31_Witness ==
    /\ op.name = "decodeEvent" /\ op.s = 2
    /\ hist[1].done
    /\ op.res.kind = "event"
    /\ op.res.event.type = "tool_result"
    /\ op.res.event.result = "file1.ts\nfile2.ts\n"

-----------------------------------------------------------------------------
(* BatchSpec: a session whose engine yields a message that translates to   *)
(* two events, while the gate emits                                        *)

BatchNext ==
    \/ \E i \in {2, 4} : eng["s1"].n < MaxBatchMsgs /\ DriveMessage("s1", i)
    \/ DriveEnd("s1")
    \/ \E tool \in Tools, ctx \in SpecContexts :
           nextId < MaxSpecIds /\ RequestCall("s1", tool, "i1", ctx)
    \/ \E q \in Questions : nextId < MaxSpecIds /\ AskQuestionCall("s1", q)
    \/ \E body \in SpecBodies("s1") : PostRespond("s1", body)
    \/ Abort("s1")

BatchSpec == Init /\ [][BatchNext]_vars

\* C32: the step that translates an engine message pushes exactly the
\* events translated from it, one after the other in order, and every other
\* step pushes gate emissions only: the events of a batch are contiguous on
\* the output channel.
C32_BatchContiguous ==
    [][LET before == outLog["s1"].all
           after == outLog'["s1"].all
           pushed == SubSeq(after, Len(before) + 1, Len(after))
       IN /\ Len(after) >= Len(before)
          /\ SubSeq(after, 1, Len(before)) = before
          /\ IF op'.name = "drive" /\ ~aborted["s1"]
             THEN pushed = Translate(tr["s1"], EngineMsgs[op'.arg]).events
             ELSE \A k \in 1..Len(pushed) :
                     pushed[k].type \in {"permission_request", "permission_resolved",
                                         "user_question", "user_question_answered"}]_vars

\* a streamed delta, then a gate emission and its resolution, then a batch
\* of two events next to each other
C32_Witness ==
    LET all == outLog["s1"].all IN
    /\ op.name = "drive" /\ op.arg = 4
    /\ Len(all) = 5
    /\ all[1].type = "text_delta"
    /\ all[2].type = "permission_request"
    /\ all[3].type = "permission_resolved"
    /\ all[4].type = "thinking_delta"
    /\ all[5].type = "tool_call"

-----------------------------------------------------------------------------
(* RetainSpec: the same engine, and up to two clients calling              *)
(* GET /sessions/:id/events, each at any time                              *)

RetainNext ==
    \/ \E i \in {2, 4} : eng["s1"].n < MaxBatchMsgs /\ DriveMessage("s1", i)
    \/ DriveEnd("s1")
    \/ \E c \in Consumers : GetEvents("s1", c)
    \/ \E c \in Consumers : SseStep("s1", c)

RetainSpec == Init /\ [][RetainNext]_vars

\* C34: the events the output channel accepted are, each exactly once,
\* either written to one of the responses, held by a settled next() of one,
\* or still queued; each response receives its events in push order; and
\* while only one client has ever subscribed, however late, what it has
\* received followed by the queue is everything accepted, in order.
C34_RetainedAndDeliveredOnce ==
    LET open == outLog["s1"].open
        queue == out["s1"].queue
        Received(c) == WrittenEvents("s1", c) \o OutInFlight("s1", c)
        everywhere == Received("c1") \o Received("c2") \o queue
        Count(e, seq) == Cardinality({i \in 1..Len(seq) : seq[i] = e})
        RECURSIVE IsSubSeq(_, _)
        IsSubSeq(a, b) ==
            IF a = <<>> THEN TRUE
            ELSE IF b = <<>> THEN FALSE
            ELSE IF Head(a) = Head(b) THEN IsSubSeq(Tail(a), Tail(b))
            ELSE IsSubSeq(a, Tail(b))
    IN /\ Len(everywhere) = Len(open)
       /\ \A i \in 1..Len(open) : Count(open[i], everywhere) = Count(open[i], open)
       /\ \A c \in Consumers : IsSubSeq(Received(c), open)
       /\ \A c, d \in Consumers :
             (c # d /\ sse["s1"][d].st = "none") => Received(c) \o queue = open

\* two events were pushed before anyone subscribed; the first client to
\* subscribe was sent both, and the second, subscribing later, was sent
\* only what was pushed after them
C34_Witness ==
    /\ Len(outLog["s1"].open) = 3
    /\ WrittenEvents("s1", "c1") = SubSeq(outLog["s1"].open, 1, 2)
    /\ WrittenEvents("s1", "c2") = SubSeq(outLog["s1"].open, 3, 3)
    /\ out["s1"].queue = <<>>

\* C35: whenever next() calls are suspended on a session's output
\* channel, each of them is the waiter the channel holds, so that the next
\* push or close resolves it: none has been replaced by a later next().
C35_NoWaiterAbandoned ==
    \A c \in Consumers :
        out["s1"].promise[c].st = "parked" => out["s1"].waiting = c

\* C40: while the channel holds a waiter its queue is empty and it is not
\* closed.
C40_WaiterMeansEmptyAndOpen ==
    chan.waiting # NoWaiter => chan.queue = <<>> /\ ~chan.closed

\* the consumer is suspended again after a value was pushed and received
C40_Witness ==
    /\ chan.waiting = "c1" /\ chan.promise["c1"].st = "parked"
    /\ Len(recv) >= 1 /\ pushedOpen = recv

\* C39: a POST /sessions/:id/respond of kind "permission" that finds its
\* id settles the permission with allow exactly when the body's behavior is
\* "allow"; a body with no behavior settles it with deny and emits
\* permission_resolved with behavior deny.
C39_NoBehaviorDenies ==
    [][(op'.name = "respond" /\ op'.res = 200 /\ op'.arg.kind = "permission") =>
          LET body == op'.arg
              emitted == outLog'[op'.s].all[Len(outLog'[op'.s].all)]
          IN /\ fut[body.id].st = "pending"
             /\ fut'[body.id].st = "resolved"
             /\ fut'[body.id].value.behavior = "allow" <=> body.behavior = "allow"
             /\ body.behavior = Undefined =>
                   /\ fut'[body.id].value = [behavior |-> "deny", message |-> "User denied"]
                   /\ emitted = [type |-> "permission_resolved", id |-> body.id,
                                 behavior |-> "deny"]]_vars

\* a body with an updated input and no behavior: the permission is denied
C39_Witness ==
    /\ op.name = "respond" /\ op.res = 200 /\ op.arg.kind = "permission"
    /\ op.arg.behavior = Undefined /\ op.arg.updatedInput = "i2"
    /\ fut[op.arg.id].value.behavior = "deny"

-----------------------------------------------------------------------------
(* MirrorSpec: a session that is never aborted, whose engine yields init    *)
(* and result messages while the gate is asked and answered                 *)

MirrorNext ==
    \/ \E i \in {3, 5} : eng["s1"].n < MaxBatchMsgs /\ DriveMessage("s1", i)
    \/ DriveEnd("s1")
    \/ \E tool \in Tools, ctx \in SpecContexts :
           nextId < MaxSpecIds /\ RequestCall("s1", tool, "i1", ctx)
    \/ \E q \in Questions : nextId < MaxSpecIds /\ AskQuestionCall("s1", q)
    \/ \E body \in SpecBodies("s1") : PostRespond("s1", body)

MirrorSpec == Init /\ [][MirrorNext]_vars

\* C37: the state a client reaches by reducing, in order, every event
\* pushed to the output channel of the session so far has the ids of the
\* gate's pending permissions as the keys of pendingPermissions, and the ids
\* of the gate's pending questions as the keys of pendingQuestions.
C37_ClientPendingMirrorsGate ==
    LET RECURSIVE ReduceAll(_, _)
        ReduceAll(state, events) ==
            IF events = <<>> THEN state
            ELSE LET r == ReduceEvent(state, Head(events))
                 IN ReduceAll(IF r.threw THEN state ELSE r.state, Tail(events))
        reduced == ReduceAll(InitialState, outLog["s1"].all)
        Keys(m) == {m[i].key : i \in 1..Len(m)}
    IN ~aborted["s1"] =>
          /\ Keys(reduced.pendingPermissions) = DOMAIN pendingPermissions["s1"]
          /\ Keys(reduced.pendingQuestions) = pendingQuestions["s1"]

-----------------------------------------------------------------------------
(* EndSpec: a session whose engine yields init and result messages, ends,  *)
(* throws or is aborted, and one client of GET /sessions/:id/events         *)

EndNext ==
    \/ \E i \in {3, 5} : eng["s1"].n < MaxBatchMsgs /\ DriveMessage("s1", i)
    \/ DriveEnd("s1")
    \/ DriveThrow("s1")
    \/ Abort("s1")
    \/ GetEvents("s1", "c1")
    \/ SseStep("s1", "c1")

EndSpec == Init /\ [][EndNext]_vars

\* C38: once the response of GET /sessions/:id/events has ended with
\* [DONE], the state a client reaches by reducing the events of the
\* response in order has isRunning false.
C38_DoneMeansNotRunning ==
    LET RECURSIVE ReduceStream(_, _)
        ReduceStream(state, events) ==
            IF events = <<>> THEN state
            ELSE LET r == ReduceEvent(state, Head(events))
                 IN ReduceStream(IF r.threw THEN state ELSE r.state, Tail(events))
        body == sse["s1"]["c1"].body
    IN (sse["s1"]["c1"].st = "closed" /\ body[Len(body)] = EncodeDone) =>
          ~ReduceStream(InitialState, WrittenEvents("s1", "c1")).isRunning

-----------------------------------------------------------------------------
(* ToolSpec: the translator of a session, given messages that introduce    *)
(* tools and stream their input                                            *)

\* the engine messages this specification draws
ToolMsgs ==
    LET ToolUse(id) == [type |-> "tool_use", id |-> id, name |-> "Bash"]
        Stream(ev) == [type |-> "stream_event", event |-> ev]
    IN { Stream([type |-> "content_block_start", content_block |-> ToolUse("tc_1")]),
         Stream([type |-> "content_block_start", content_block |-> ToolUse("tc_2")]),
         Stream([type |-> "content_block_delta",
                 delta |-> [type |-> "input_json_delta", partial_json |-> "{"]]),
         [type |-> "assistant", content |-> <<ToolUse("tc_1")>>] }

ToolNext == \E m \in ToolMsgs : Len(hist) < MaxTranslate /\ TranslateCall("s1", m)

ToolSpec == Init /\ [][ToolNext]_vars

\* C33: an input_json_delta is translated to no event when no tool has been
\* introduced, and otherwise to one tool_input_delta for the tool introduced
\* most recently, by a content_block_start or by an assistant tool_use
\* block, a known id introduced again included.
C33_InputDeltaGoesToLatestTool ==
    [][LET \* the id a translate call introduced, for the calls that did
           IntroducedBy(h) ==
               IF h.message.type = "assistant" THEN h.message.content[1].id
               ELSE h.message.event.content_block.id
           Introduces(h) ==
               \/ h.message.type = "assistant"
               \/ h.message.event.type = "content_block_start"
           intros == SelectSeq(hist, Introduces)
       IN (/\ op'.name = "translate"
           /\ op'.arg.type = "stream_event"
           /\ op'.arg.event.type = "content_block_delta") =>
             op'.res = IF intros = <<>> THEN <<>>
                       ELSE <<[type |-> "tool_input_delta",
                               toolCallId |-> IntroducedBy(intros[Len(intros)]),
                               text |-> "{"]>>]_vars

====
